---- MODULE Spec2Model ----
(***************************************************************************)
(* A model of the trend analysis engine of ai-content-optimizer            *)
(* (src/trend_analyzer.py, class TrendAnalyzer) and of the caller that     *)
(* assembles its dataset (src/main.py, collect_and_analyze).               *)
(*                                                                         *)
(* Python values are represented as follows.                               *)
(*   - an insertion-ordered dict whose iteration order matters (the        *)
(*     dataset, the per-platform insight blocks) is a sequence of          *)
(*     <<key, value>> pairs with distinct keys;                            *)
(*   - a collected record (a dict read only through .get) is a TLA+        *)
(*     record carrying exactly the keys that are present; a list element   *)
(*     that is not a mapping at all is the value NotAMapping;              *)
(*   - a published_at text is [shape, day, hour]: its syntactic shape and  *)
(*     the date and hour written in it;                                    *)
(*   - a formatted text "<a>:00 - <b>:00" is [from |-> a, to |-> b].       *)
(***************************************************************************)
EXTENDS Integers, Sequences, FiniteSets, TLC

VARIABLES
  data,       \* self.data: the dataset, the dict the caller also holds
  insights,   \* self.insights: the analyzer's accumulator dict
  ret,        \* what the last analyze() call returned (a reference or a fresh dict)
  hours,      \* the local list `hours` of the last _analyze_posting_times, per platform
  held,       \* the reference a caller kept from an earlier analyze() call
  heldVal,    \* the value that reference denoted when analyze() returned it
  tieOrder,   \* how the installed pandas orders equal counts in value_counts()
  recs,       \* what the last get_recommendations() call returned
  calls,      \* how many analyze() calls have returned
  worksheet,  \* GoogleSheetsFixed.upload_data_smart: the sheet and the call's outcome
  storage,    \* GoogleSheetsHandler.store_data: the sheet, the backup and the outcome
  videos,     \* YouTubeCollector.collect: the local list `videos` and the outcome
  metrics     \* MetricsTracker: self.metrics and the last call's outcome

vars == <<data, insights, ret, hours, held, heldVal, tieOrder, recs, calls,
          worksheet, storage, videos, metrics>>

----------------------------------------------------------------------------
(* Bounds of the model.                                                    *)

\* records in a dataset whose published_at all parse or are absent
MaxItems == 5
\* records in a dataset that mixes unparsable timestamps and malformed records
MaxMixed == 2
\* records in a dataset of the posting-time runs with random substitute hours
MaxTimed == 3
\* records in a dataset of the engagement and keyword runs
MaxEngaged == 4
\* videos in a dataset of the viral-pattern runs
MaxViral == 7
\* records in a dataset of the recommendation runs
MaxRecs == 4
\* analyze() calls on one dataset
MaxCalls == 2
\* entries logged by the metrics tracker
MaxTracked == 3
\* items of a short list handed to upload_data_smart
MaxUpload == 3
\* items of a list handed to store_data
MaxStored == 2
\* the largest max_retries handed to store_data
MaxRetries == 3
\* ITEMS_PER_SOURCE of config.settings: a small number of items per source
ITEMS_PER_SOURCE == 3
\* keywords in KEYWORDS of config.settings
MaxKeywords == 3
\* videos the API returns for one keyword
MaxPerKeyword == 2

----------------------------------------------------------------------------
(* Program constants.                                                      *)

\* random.randint(9, 17)
RandLo == 9
RandHi == 17

\* a variant that draws the substitute hour from the whole day
RandHoursAllDay == 0..23

RandHours == RandLo..RandHi

\* hour_counts.head(3)
TopN == 3

\* the default entry of a platform without hours
DefaultPeakHours == <<10, 14, 19>>
DefaultPeakHour == 14
DefaultSampleSize == 0

Platforms == {"youtube", "reddit", "google_news"}

----------------------------------------------------------------------------
(* Insertion-ordered dicts: sequences of <<key, value>> pairs.             *)

DHas(d, k) == \E i \in DOMAIN d : d[i][1] = k
DGet(d, k) == d[CHOOSE i \in DOMAIN d : d[i][1] = k][2]
Range(s) == {s[i] : i \in DOMAIN s}

----------------------------------------------------------------------------
(* Records and timestamps.                                                 *)

NotAMapping == [notmap |-> TRUE]
IsMapping(item) == "notmap" \notin DOMAIN item

\* the text "" that item.get("published_at", "") yields for a missing key
EmptyText == [shape |-> "empty", day |-> 0, hour |-> 0]

\* item.get("published_at", "")
PubTime(item) ==
  IF "published_at" \in DOMAIN item THEN item.published_at ELSE EmptyText

\* `if pub_time:`
Truthy(ts) == ts.shape # "empty"

\* `'T' in pub_time`; raises TypeError on a value that is not text
IsText(ts) == ts.shape # "non_text"
HasT(ts) == ts.shape \in {"iso_z", "iso_offset", "iso_naive", "garbage_T"}

\* datetime.fromisoformat, after `replace('Z', '+00:00')` for a trailing Z
IsoParses(ts) == ts.shape \in {"iso_z", "iso_offset", "iso_naive"}
\* datetime.strptime(pub_time, '%Y-%m-%d %H:%M:%S')
FixedParses(ts) == ts.shape = "fixed"

\* the three copies of the parsing code agree on which texts parse
Parses(ts) ==
  /\ Truthy(ts)
  /\ IsText(ts)
  /\ IF HasT(ts) THEN IsoParses(ts) ELSE FixedParses(ts)

\* a parsed datetime carries an offset (is "aware") only when the text had one
Aware(ts) == ts.shape \in {"iso_z", "iso_offset"}

----------------------------------------------------------------------------
(* _analyze_posting_times                                                  *)

\* the record appends a random hour (either `except` branch)
NeedsRandom(item) ==
  /\ IsMapping(item)
  /\ Truthy(PubTime(item))
  /\ ~Parses(PubTime(item))

\* a variant that substitutes a random hour for a missing published_at too
HourOfAlways(item, r) ==
  IF Parses(PubTime(item)) THEN <<PubTime(item).hour>> ELSE <<r>>

\* the hours one record appends to `hours`; r is the random.randint draw
HourOf(item, r) ==
  LET pub_time == PubTime(item) IN
  IF ~Truthy(pub_time) THEN <<>>
  ELSE IF Parses(pub_time) THEN <<pub_time.hour>>
  ELSE <<r>>

\* the slots <<platform index, record index>> of d that draw a random hour
RandomSlots(d) ==
  UNION { {<<k, i>> : i \in {j \in DOMAIN d[k][2] : NeedsRandom(d[k][2][j])}} :
          k \in DOMAIN d }

RECURSIVE ExtractHours(_, _, _, _)
ExtractHours(items, rnd, k, i) ==
  IF i > Len(items) THEN <<>>
  ELSE HourOf(items[i], IF <<k, i>> \in DOMAIN rnd THEN rnd[<<k, i>>] ELSE RandLo)
         \o ExtractHours(items, rnd, k, i + 1)

\* pd.Series(hours).value_counts(): the distinct hours by descending count
Count(hs, h) == Cardinality({i \in DOMAIN hs : hs[i] = h})
FirstIndex(hs, h) == CHOOSE i \in DOMAIN hs : hs[i] = h /\ \A j \in 1..(i - 1) : hs[j] # h

TieBefore(hs, tie, a, b) ==
  IF tie = "first_seen" THEN FirstIndex(hs, a) < FirstIndex(hs, b) ELSE a < b

\* a variant that ranks the least frequent hour first
RanksAscendingCount(hs, tie, a, b) ==
  \/ Count(hs, a) < Count(hs, b)
  \/ Count(hs, a) = Count(hs, b) /\ TieBefore(hs, tie, a, b)

\* the order of value_counts(): descending count, equal counts by tie order
RanksBefore(hs, tie, a, b) ==
  \/ Count(hs, a) > Count(hs, b)
  \/ Count(hs, a) = Count(hs, b) /\ TieBefore(hs, tie, a, b)

ValueCounts(hs, tie) ==
  LET labels == Range(hs)
      rank(h) == 1 + Cardinality({g \in labels : RanksBefore(hs, tie, g, h)})
  IN [n \in 1..Cardinality(labels) |-> CHOOSE h \in labels : rank(h) = n]

\* .head(n), [:n]
HeadN(s, n) == IF Len(s) <= n THEN s ELSE SubSeq(s, 1, n)

\* a variant that leaves the list as value_counts() ordered it
UnsortedList(s) == s

\* list.sort() on a list of integers
SortAsc(s) ==
  LET rank(i) == 1 + Cardinality({j \in DOMAIN s : s[j] < s[i] \/ (s[j] = s[i] /\ j < i)})
  IN [n \in 1..Len(s) |-> s[CHOOSE i \in DOMAIN s : rank(i) = n]]

TimeRange(a, b) == [from |-> a, to |-> b]

\* a variant that lets the end of the window run past midnight
EndOfWindowNoWrap(h) == h + 3

\* (peak_hours[0] + 3) % 24
EndOfWindow(h) == (h + 3) % 24

\* a variant whose default counts the records without hours
DefaultTimesCounted ==
  [peak_hours |-> DefaultPeakHours,
   best_time_range |-> [from |-> DefaultPeakHours[1], to |-> DefaultPeakHours[3]],
   sample_size |-> 1,
   peak_hour |-> DefaultPeakHour]

\* "Default times if no data"
DefaultTimes ==
  [peak_hours |-> DefaultPeakHours,
   best_time_range |-> TimeRange(DefaultPeakHours[1], DefaultPeakHours[3]),
   sample_size |-> DefaultSampleSize,
   peak_hour |-> DefaultPeakHour]

\* the entry of one non-empty platform, from its list `hours`
PlatformTimes(hs, tie) ==
  IF hs = <<>> THEN DefaultTimes
  ELSE
    LET hour_counts == ValueCounts(hs, tie)
        peak_hours == SortAsc(HeadN(hour_counts, TopN))
    IN [peak_hours |-> peak_hours,
        best_time_range |->
          IF Len(peak_hours) >= 2
            THEN TimeRange(peak_hours[1], peak_hours[Len(peak_hours)])
            ELSE TimeRange(peak_hours[1], EndOfWindow(peak_hours[1])),
        sample_size |-> Len(hs),
        peak_hour |-> hour_counts[1]]

\* item.get(...) on a record that is not a mapping raises
PostingTimesFaults(d) ==
  \E k \in DOMAIN d : \E i \in DOMAIN d[k][2] : ~IsMapping(d[k][2][i])

\* a variant that visits the empty platforms too
EveryIdx(d) == DOMAIN d

\* the platforms the loop visits: `if not items: continue`
NonEmptyIdx(d) == {k \in DOMAIN d : d[k][2] # <<>>}

RECURSIVE Visit(_, _, _, _)
\* the ordered dict built by a `for platform, items in self.data.items()` loop
\* whose body stores Entry[k] for every platform it does not skip
Visit(d, skip, Entry, k) ==
  IF k > Len(d) THEN <<>>
  ELSE (IF k \in skip THEN <<>> ELSE << <<d[k][1], Entry[k]>> >>)
         \o Visit(d, skip, Entry, k + 1)

HoursByPlatform(d, rnd) ==
  Visit(d, (DOMAIN d) \ NonEmptyIdx(d),
        [k \in DOMAIN d |-> ExtractHours(d[k][2], rnd, k, 1)], 1)

AnalyzePostingTimes(d, rnd, tie) ==
  Visit(d, (DOMAIN d) \ NonEmptyIdx(d),
        [k \in DOMAIN d |-> PlatformTimes(ExtractHours(d[k][2], rnd, k, 1), tie)], 1)

----------------------------------------------------------------------------
(* Numbers and texts.                                                      *)

\* an engagement value: an integer, or a text such as "1.2K"
IntV(n) == [kind |-> "int", n |-> n]
TextV == [kind |-> "text", n |-> 0]

\* item.get("engagement_metrics", {}).get(key, 0)
Metric(item, key) ==
  IF "engagement_metrics" \in DOMAIN item /\ key \in DOMAIN item.engagement_metrics
    THEN item.engagement_metrics[key]
    ELSE IntV(0)

\* the list [Metric(item, key) for item in items]
MetricList(items, key) == [i \in DOMAIN items |-> Metric(items[i], key)]

\* sum(list) raises TypeError when an element is a text
SumFaults(vs) == \E i \in DOMAIN vs : vs[i].kind = "text"

RECURSIVE SumFrom(_, _)
SumFrom(vs, i) == IF i > Len(vs) THEN 0 ELSE vs[i].n + SumFrom(vs, i + 1)
Sum(vs) == SumFrom(vs, 1)

\* int(a / b) for b > 0: truncation toward zero
TruncDiv(a, b) == IF a >= 0 THEN a \div b ELSE -((-a) \div b)

RECURSIVE Gcd(_, _)
Gcd(a, b) == IF b = 0 THEN a ELSE Gcd(b, a % b)

\* the float a / b (b > 0), as a fraction in lowest terms
Ratio(a, b) ==
  LET g == Gcd(IF a >= 0 THEN a ELSE -a, b) IN [num |-> a \div g, den |-> b \div g]
\* a variant whose guarded ratio falls back to one
One == [num |-> 1, den |-> 1]
Zero == [num |-> 0, den |-> 1]

\* a variant that takes the first value for the maximum
FirstValue(vs) == vs[1].n

MaxOf(vs) == CHOOSE m \in {vs[i].n : i \in DOMAIN vs} : \A i \in DOMAIN vs : vs[i].n <= m
MinOf(vs) == CHOOSE m \in {vs[i].n : i \in DOMAIN vs} : \A i \in DOMAIN vs : m <= vs[i].n

\* a text is [words, len]: its words (each [text, len, cased], separated by
\* single spaces) and its length in characters; "" is EmptyTitle
EmptyTitle == [words |-> <<>>, len |-> 0]

\* item.get("title", "")
Title(item) == IF "title" \in DOMAIN item THEN item.title ELSE EmptyTitle

\* title[:n]: whole words while they fit, then the cut part of the next word
RECURSIVE TakeWords(_, _)
TakeWords(ws, n) ==
  IF ws = <<>> \/ n <= 0 THEN <<>>
  ELSE IF Head(ws).len <= n
    THEN <<Head(ws)>> \o TakeWords(Tail(ws), n - Head(ws).len - 1)
    ELSE << [Head(ws) EXCEPT !.len = n] >>
Truncate(t, n) ==
  IF t.len <= n THEN t ELSE [words |-> TakeWords(t.words, n), len |-> n]

\* word.lower()
Lower(w) == [w EXCEPT !.cased = FALSE]

\* Counter(seq): the distinct elements in first-encountered order, each
\* with its count
RECURSIVE TallyFrom(_, _)
TallyFrom(s, i) ==
  IF i > Len(s) THEN <<>>
  ELSE (IF \E j \in 1..(i - 1) : s[j] = s[i] THEN <<>> ELSE << <<s[i], Count(s, s[i])>> >>)
         \o TallyFrom(s, i + 1)

\* the first n elements of the tally t by descending count, equal counts in
\* the order of t
RECURSIVE TakeMost(_, _)
TakeMost(t, n) ==
  IF t = <<>> \/ n = 0 THEN <<>>
  ELSE LET m == CHOOSE i \in DOMAIN t :
                  /\ \A j \in DOMAIN t : t[j][2] <= t[i][2]
                  /\ \A j \in 1..(i - 1) : t[j][2] < t[i][2]
       IN <<t[m][1]>> \o TakeMost(SubSeq(t, 1, m - 1) \o SubSeq(t, m + 1, Len(t)), n - 1)

\* Counter(seq).most_common(n): distinct elements by descending count,
\* equal counts in first-encountered order
MostCommon(s, n) == TakeMost(TallyFrom(s, 1), n)

RECURSIVE Concat(_, _)
Concat(ss, i) == IF i > Len(ss) THEN <<>> ELSE ss[i] \o Concat(ss, i + 1)

----------------------------------------------------------------------------
(* _analyze_viral_patterns                                                 *)

\* the block as first built: four keys, all empty
NoPatterns ==
  [empty |-> FALSE, high_engagement_titles |-> <<>>, common_keywords_in_viral |-> <<>>]
\* the dict {} that the fault handler stores under viral_content_patterns
EmptyPatterns ==
  [empty |-> TRUE, high_engagement_titles |-> <<>>, common_keywords_in_viral |-> <<>>]

\* self.data.get("youtube", [])
YoutubeData(d) == IF DHas(d, "youtube") THEN DGet(d, "youtube") ELSE <<>>

ViralFaults(d) ==
  LET youtube_data == YoutubeData(d) IN
  \/ \E i \in DOMAIN youtube_data : ~IsMapping(youtube_data[i])
  \/ SumFaults(MetricList(youtube_data, "views"))

\* a variant that counts a video at the average as viral
AtOrAboveAverage(v, total, n) == v * n >= total

\* views > avg_views, with avg_views = sum(views) / len(views)
AboveAverage(v, total, n) == v * n > total

HasTitle(item) == Title(item).len > 0
TitleWords(item) == Title(item).words
\* a variant that asks for more than four characters
LongerWord(w) == w.len > 4
\* the words r'\b\w{4,}\b' matches
LongWord(w) == w.len >= 4

ViralVideos(youtube_data) ==
  LET views == MetricList(youtube_data, "views")
      viral(item) == AboveAverage(Metric(item, "views").n, Sum(views), Len(views))
  IN SelectSeq(youtube_data, viral)

AnalyzeViralPatterns(d) ==
  LET youtube_data == YoutubeData(d)
      viral_videos == ViralVideos(youtube_data)
      titled == SelectSeq(viral_videos, HasTitle)
      first5 == SelectSeq(HeadN(viral_videos, 5), HasTitle)
      all_words == Concat([i \in DOMAIN titled |-> TitleWords(titled[i])], 1)
      words == SelectSeq([i \in DOMAIN all_words |-> Lower(all_words[i])], LongWord)
  IN IF youtube_data = <<>> \/ viral_videos = <<>> THEN NoPatterns
     ELSE [empty |-> FALSE,
           high_engagement_titles |->
             [i \in DOMAIN first5 |-> Truncate(Title(first5[i]), 100)],
           common_keywords_in_viral |-> MostCommon(words, 10)]

----------------------------------------------------------------------------
(* _analyze_engagement                                                     *)

EngagementFaults(d) ==
  \E k \in DOMAIN d :
    LET platform == d[k][1]
        items == d[k][2]
    IN /\ items # <<>>
       /\ \/ /\ platform \in {"youtube", "reddit", "google_news"}
             /\ \E i \in DOMAIN items : ~IsMapping(items[i])
          \/ /\ platform = "youtube"
             /\ \/ SumFaults(MetricList(items, "views"))
                \/ SumFaults(MetricList(items, "likes"))
          \/ /\ platform = "reddit"
             /\ \/ SumFaults(MetricList(items, "upvotes"))
                \/ SumFaults(MetricList(items, "comments"))

YoutubeStats(items) ==
  LET views == MetricList(items, "views")
      likes == MetricList(items, "likes")
  IN [shape |-> "video",
      avg_views |-> TruncDiv(Sum(views), Len(views)),
      avg_likes |-> TruncDiv(Sum(likes), Len(likes)),
      view_to_like_ratio |->
        IF Sum(views) > 0 THEN Ratio(Sum(likes), Sum(views)) ELSE Zero,
      max_views |-> MaxOf(views),
      min_views |-> MinOf(views),
      total_items |-> Len(items)]

RedditStats(items) ==
  LET upvotes == MetricList(items, "upvotes")
      comments == MetricList(items, "comments")
  IN [shape |-> "forum",
      avg_upvotes |-> TruncDiv(Sum(upvotes), Len(upvotes)),
      avg_comments |-> TruncDiv(Sum(comments), Len(comments)),
      engagement_rate |->
        IF Sum(upvotes) > 0 THEN Ratio(Sum(comments), Sum(upvotes)) ELSE Zero,
      total_items |-> Len(items)]

RECURSIVE TitleLenSum(_, _)
TitleLenSum(items, i) ==
  IF i > Len(items) THEN 0 ELSE Title(items[i]).len + TitleLenSum(items, i + 1)

NewsStats(items) ==
  [shape |-> "other",
   total_items |-> Len(items),
   avg_title_length |-> Ratio(TitleLenSum(items, 1), Len(items))]

\* the platforms that get an entry: the if / elif / elif chain has no else
KnownPlatform(platform) == platform \in {"youtube", "reddit", "google_news"}

AnalyzeEngagement(d) ==
  Visit(d, {k \in DOMAIN d : d[k][2] = <<>> \/ ~KnownPlatform(d[k][1])},
        [k \in DOMAIN d |->
           IF d[k][2] = <<>> THEN Zero
           ELSE IF d[k][1] = "youtube" THEN YoutubeStats(d[k][2])
           ELSE IF d[k][1] = "reddit" THEN RedditStats(d[k][2])
           ELSE NewsStats(d[k][2])], 1)

----------------------------------------------------------------------------
(* _analyze_keywords                                                       *)

\* item.get("keyword", "unknown")
Keyword(item) == IF "keyword" \in DOMAIN item THEN item.keyword ELSE "unknown"

\* the metric a platform's engagement is read from ("" for none)
EngagementKey(platform) ==
  IF platform = "youtube" THEN "views"
  ELSE IF platform = "reddit" THEN "upvotes"
  ELSE ""

\* the engagement of one record: 0 when the platform has no metric
Engagement(item, key) == IF key = "" THEN IntV(0) ELSE Metric(item, key)

KeywordsFaults(d) ==
  \E k \in DOMAIN d : \E i \in DOMAIN d[k][2] :
    \/ ~IsMapping(d[k][2][i])
    \/ Engagement(d[k][2][i], EngagementKey(d[k][1])).kind = "text"

\* the distinct elements of s in first-encountered order
\* a variant that opens a group for every record
KeepDuplicates(s) == s

\* the keys of keyword_stats, in the order the loop creates them
Distinct(s) ==
  LET firsts == {i \in DOMAIN s : \A j \in 1..(i - 1) : s[j] # s[i]}
      rank(i) == Cardinality({j \in firsts : j <= i})
  IN [n \in 1..Cardinality(firsts) |-> s[CHOOSE i \in firsts : rank(i) = n]]

\* a variant that rounds the average down
AvgEngagementFloor(total, count) == total \div count

\* int(total / count)
AvgEngagement(total, count) == TruncDiv(total, count)

KeywordStats(platform, items) ==
  LET kws == Distinct([i \in DOMAIN items |-> Keyword(items[i])])
      engagement == [i \in DOMAIN items |-> Engagement(items[i], EngagementKey(platform))]
      group(kw) == {i \in DOMAIN items : Keyword(items[i]) = kw}
      total(kw) == Sum([i \in DOMAIN items |->
                          IF i \in group(kw) THEN engagement[i] ELSE IntV(0)])
  IN [n \in DOMAIN kws |->
        <<kws[n], [count |-> Cardinality(group(kws[n])),
                   total_engagement |-> total(kws[n]),
                   avg_engagement |-> AvgEngagement(total(kws[n]), Cardinality(group(kws[n])))]>>]

AnalyzeKeywords(d) ==
  Visit(d, (DOMAIN d) \ NonEmptyIdx(d),
        [k \in DOMAIN d |-> KeywordStats(d[k][1], d[k][2])], 1)

----------------------------------------------------------------------------
(* _analyze_platforms                                                      *)

\* the records whose published_at the date code parses (a value that is not
\* text raises inside the try and is skipped like an unparsable text)
Dated(items) == {i \in DOMAIN items : Parses(PubTime(items[i]))}

\* comparing an offset-naive with an offset-aware datetime raises TypeError
MixedOffsets(items, idx) ==
  \E i, j \in idx : Aware(PubTime(items[i])) /\ ~Aware(PubTime(items[j]))

\* min(dates) / max(dates) is outside the try
DateRangeFaults(items) ==
  \/ \E i \in DOMAIN items : ~IsMapping(items[i])
  \/ MixedOffsets(items, Dated(items))

UnknownRange == [known |-> FALSE, from |-> 0, to |-> 0]

\* f"{min(dates).date()} to {max(dates).date()}"
GetDateRange(items) ==
  LET days == {PubTime(items[i]).day : i \in Dated(items)} IN
  IF days = {} THEN UnknownRange
  ELSE [known |-> TRUE,
        from |-> CHOOSE a \in days : \A b \in days : a <= b,
        to |-> CHOOSE a \in days : \A b \in days : b <= a]

HasKeyword(item) == "keyword" \in DOMAIN item /\ item.keyword # ""

GetTopKeywords(items) ==
  LET with == SelectSeq(items, HasKeyword) IN
  MostCommon([i \in DOMAIN with |-> with[i].keyword], 5)

\* str(items[0].get("platform", ""))
PlatformTag(item) == IF "platform" \in DOMAIN item THEN item.platform ELSE ""
\* `"youtube" in tag`, `"reddit" in tag`: substring tests
MentionsYoutube(tag) == tag \in {"youtube", "youtube_shorts"}
MentionsReddit(tag) == tag \in {"reddit"}

TrendKey(items) ==
  IF MentionsYoutube(PlatformTag(items[1])) THEN "views"
  ELSE IF MentionsReddit(PlatformTag(items[1])) THEN "upvotes"
  ELSE ""

\* datetime order, on datetimes that can be compared
DateBefore(a, b) == a.day < b.day \/ (a.day = b.day /\ a.hour < b.hour)

\* a variant that leaves dated_items in input order
UnsortedEngagement(items) ==
  LET idx == Dated(items)
      key == TrendKey(items)
      rank(i) == Cardinality({j \in idx : j <= i})
  IN [n \in 1..Cardinality(idx) |->
        Engagement(items[CHOOSE i \in idx : rank(i) = n], key)]

\* dated_items after the stable sort by date: the engagement values
SortedEngagement(items) ==
  LET idx == Dated(items)
      key == TrendKey(items)
      rank(i) == 1 + Cardinality({j \in idx :
                   \/ DateBefore(PubTime(items[j]), PubTime(items[i]))
                   \/ (~DateBefore(PubTime(items[i]), PubTime(items[j])) /\ j < i)})
  IN [n \in 1..Cardinality(idx) |->
        Engagement(items[CHOOSE i \in idx : rank(i) = n], key)]

\* avg_second > avg_first * 1.2 and avg_second < avg_first * 0.8, in exact
\* arithmetic: s2/n2 against (12/10) * s1/n1 and (8/10) * s1/n1
GetEngagementTrend(items) ==
  IF Len(items) < 5 THEN "Insufficient data"
  ELSE IF \E i \in DOMAIN items : ~IsMapping(items[i]) THEN "Stable"
  ELSE
    LET idx == Dated(items)
        n == Cardinality(idx)
        mid == n \div 2
        sorted == SortedEngagement(items)
        first_half == SubSeq(sorted, 1, mid)
        second_half == SubSeq(sorted, mid + 1, n)
        s1 == Sum(first_half)
        s2 == Sum(second_half)
    IN IF n < 5 \/ MixedOffsets(items, idx) \/ SumFaults(sorted) THEN "Stable"
       ELSE IF 10 * s2 * mid > 12 * s1 * (n - mid) THEN "Increasing"
       ELSE IF 10 * s2 * mid < 8 * s1 * (n - mid) THEN "Decreasing"
       ELSE "Stable"

PlatformsFaults(d) ==
  \E k \in DOMAIN d : d[k][2] # <<>> /\ DateRangeFaults(d[k][2])

PlatformInsights(items) ==
  [total_items |-> Len(items),
   date_range |-> GetDateRange(items),
   top_keywords |-> GetTopKeywords(items),
   engagement_trend |-> GetEngagementTrend(items)]

AnalyzePlatforms(d) ==
  Visit(d, (DOMAIN d) \ NonEmptyIdx(d),
        [k \in DOMAIN d |-> IF d[k][2] = <<>> THEN Zero ELSE PlatformInsights(d[k][2])], 1)

----------------------------------------------------------------------------
(* analyze                                                                 *)

BlockNames ==
  {"best_posting_times", "viral_content_patterns", "engagement_insights",
   "keyword_performance", "platform_insights"}

\* self.insights = {}: `keys` are the keys the dict holds
NoInsights ==
  [keys |-> {},
   best_posting_times |-> <<>>,
   viral_content_patterns |-> EmptyPatterns,
   engagement_insights |-> <<>>,
   keyword_performance |-> <<>>,
   platform_insights |-> <<>>]

\* the dict literal of the except branch: five keys, each an empty dict
EmptyInsights == [NoInsights EXCEPT !.keys = BlockNames]

\* the first stage (1..5) that raises on dataset d; 6 when none does
FaultStage(d) ==
  IF PostingTimesFaults(d) THEN 1
  ELSE IF ViralFaults(d) THEN 2
  ELSE IF EngagementFaults(d) THEN 3
  ELSE IF KeywordsFaults(d) THEN 4
  ELSE IF PlatformsFaults(d) THEN 5
  ELSE 6

\* a variant whose completed run extends the stored posting times instead
\* of replacing them
AccumulateAppending(old, d, rnd, tie) ==
  IF FaultStage(d) < 6 THEN old
  ELSE [keys |-> BlockNames,
        best_posting_times |-> old.best_posting_times \o AnalyzePostingTimes(d, rnd, tie),
        viral_content_patterns |-> AnalyzeViralPatterns(d),
        engagement_insights |-> AnalyzeEngagement(d),
        keyword_performance |-> AnalyzeKeywords(d),
        platform_insights |-> AnalyzePlatforms(d)]

\* self.insights after the try block ran on d up to its first fault
Accumulate(old, d, rnd, tie) ==
  LET f == FaultStage(d) IN
  [keys |-> old.keys \cup
       (IF f > 1 THEN {"best_posting_times"} ELSE {}) \cup
       (IF f > 2 THEN {"viral_content_patterns"} ELSE {}) \cup
       (IF f > 3 THEN {"engagement_insights"} ELSE {}) \cup
       (IF f > 4 THEN {"keyword_performance"} ELSE {}) \cup
       (IF f > 5 THEN {"platform_insights"} ELSE {}),
   best_posting_times |->
     IF f > 1 THEN AnalyzePostingTimes(d, rnd, tie) ELSE old.best_posting_times,
   viral_content_patterns |->
     IF f > 2 THEN AnalyzeViralPatterns(d) ELSE old.viral_content_patterns,
   engagement_insights |->
     IF f > 3 THEN AnalyzeEngagement(d) ELSE old.engagement_insights,
   keyword_performance |->
     IF f > 4 THEN AnalyzeKeywords(d) ELSE old.keyword_performance,
   platform_insights |->
     IF f > 5 THEN AnalyzePlatforms(d) ELSE old.platform_insights]

\* what analyze() hands back: `return self.insights` is a reference to the
\* accumulator, the except branch returns a new dict
NoRef == [kind |-> "none", val |-> NoInsights]
SelfRef == [kind |-> "self", val |-> NoInsights]
FreshRef(v) == [kind |-> "fresh", val |-> v]

\* a variant whose except branch hands back the accumulator
ReturnAlwaysSelf(d) == SelfRef

Returned(d) == IF FaultStage(d) = 6 THEN SelfRef ELSE FreshRef(EmptyInsights)

\* the dict a reference denotes in the current state
Deref(r) == IF r.kind = "self" THEN insights ELSE r.val

Analyze ==
  \E rnd \in [RandomSlots(data) -> RandHours] :
    /\ insights' = Accumulate(insights, data, rnd, tieOrder)
    /\ ret' = Returned(data)
    /\ calls' = calls + 1
    /\ hours' = IF PostingTimesFaults(data) THEN <<>> ELSE HoursByPlatform(data, rnd)
    /\ UNCHANGED <<data, held, heldVal, tieOrder, recs, worksheet, storage, videos, metrics>>

----------------------------------------------------------------------------
(* get_recommendations                                                     *)
(* A recommendation text is a record of the rule that wrote it and of the  *)
(* values formatted into it.                                               *)

\* no call yet
NoRecs == [called |-> FALSE, written |-> <<>>, list |-> <<>>]

\* f"Post on {platform} between {times['best_time_range']} for maximum reach"
PostingRec(platform, range) == [rule |-> "posting_time", platform |-> platform, range |-> range]
\* f"Include these keywords in content: {', '.join(viral_keywords[:3])}"
ViralRec(keywords) == [rule |-> "viral_keywords", keywords |-> keywords]
\* f"Focus on {best_platform} for highest engagement (avg: {best_engagement:,})"
PlatformRec(platform, avg) == [rule |-> "best_platform", platform |-> platform, avg |-> avg]
\* f"On {platform}, '{best_keyword[0]}' performs best ({...:,} avg engagement)"
KeywordRec(platform, keyword, avg) ==
  [rule |-> "best_keyword", platform |-> platform, keyword |-> keyword, avg |-> avg]

\* the four general recommendations
GeneralRecs == [n \in 1..4 |-> [rule |-> "general", n |-> n]]

\* `if times.get("best_time_range")`: every stored entry holds a non-empty text
PostingRecs(times) ==
  [n \in DOMAIN times |-> PostingRec(times[n][1], times[n][2].best_time_range)]

ViralRecs(patterns) ==
  IF patterns.common_keywords_in_viral = <<>> THEN <<>>
  ELSE << ViralRec(HeadN(patterns.common_keywords_in_viral, 3)) >>

\* a variant that reads avg_views only
ViewsOnly(stats) == IF "avg_views" \in DOMAIN stats THEN stats.avg_views ELSE 0

\* stats.get("avg_views", stats.get("avg_upvotes", 0))
StatsEngagement(stats) ==
  IF "avg_views" \in DOMAIN stats THEN stats.avg_views
  ELSE IF "avg_upvotes" \in DOMAIN stats THEN stats.avg_upvotes
  ELSE 0

\* the loop keeps the first platform whose engagement exceeds every earlier
\* one, starting from best_engagement = 0
PlatformRecs(stats) ==
  LET best == {i \in DOMAIN stats :
                 /\ StatsEngagement(stats[i][2]) > 0
                 /\ \A j \in DOMAIN stats : StatsEngagement(stats[j][2]) <= StatsEngagement(stats[i][2])
                 /\ \A j \in 1..(i - 1) : StatsEngagement(stats[j][2]) < StatsEngagement(stats[i][2])}
  IN IF best = {} THEN <<>>
     ELSE LET i == CHOOSE j \in best : TRUE
          IN << PlatformRec(stats[i][1], StatsEngagement(stats[i][2])) >>

\* a variant that takes the first keyword
FirstKeyword(keywords) == 1

\* max(keywords.items(), key=...): the first keyword of the largest average
BestKeyword(keywords) ==
  CHOOSE i \in DOMAIN keywords :
    /\ \A j \in DOMAIN keywords : keywords[j][2].avg_engagement <= keywords[i][2].avg_engagement
    /\ \A j \in 1..(i - 1) : keywords[j][2].avg_engagement < keywords[i][2].avg_engagement

RECURSIVE KeywordRecs(_, _)
KeywordRecs(perf, k) ==
  IF k > Len(perf) THEN <<>>
  ELSE (IF perf[k][2] = <<>> THEN <<>>
        ELSE LET b == perf[k][2][BestKeyword(perf[k][2])] IN
             IF b[2].avg_engagement > 0
               THEN << KeywordRec(perf[k][1], b[1], b[2].avg_engagement) >>
               ELSE <<>>)
       \o KeywordRecs(perf, k + 1)

\* a variant that returns every recommendation
KeepAll(s) == s

\* recommendations[:5]
TopFive(s) == HeadN(s, 5)

\* the local list `recommendations` once rules 1 to 4 have run on ins
Written(ins) ==
  PostingRecs(ins.best_posting_times)
    \o ViralRecs(ins.viral_content_patterns)
    \o PlatformRecs(ins.engagement_insights)
    \o KeywordRecs(ins.keyword_performance, 1)

\* a variant that appends the general recommendations unconditionally
AlwaysGeneral(written) == written \o GeneralRecs

\* `if not recommendations: recommendations = [...]`
WithFallback(written) == IF written = <<>> THEN GeneralRecs ELSE written

\* what get_recommendations() returns on the accumulator ins
Recommendations(ins) == TopFive(WithFallback(Written(ins)))

GetRecommendations ==
  /\ recs' = [called |-> TRUE, written |-> Written(insights),
                list |-> Recommendations(insights)]
  /\ UNCHANGED <<data, insights, ret, hours, held, heldVal, tieOrder, calls, worksheet, storage, videos, metrics>>

----------------------------------------------------------------------------
(* YouTubeCollector.collect (src/data_collectors/youtube_collector.py)     *)
(* KEYWORDS and ITEMS_PER_SOURCE come from config.settings. The API is     *)
(* what it answers: responses[k] is the number of videos with statistics   *)
(* found for the k-th keyword, and error = e > 0 says that the request for *)
(* the e-th keyword raises (0: no request raises).                         *)

\* no collect call yet
NoCollect ==
  [called |-> FALSE, responses |-> <<>>, error |-> 0, fetched |-> 0,
   result |-> "none", returned |-> 0, went_on |-> FALSE]

\* response.get("items", [])[:10]
FirstTen(c) == IF c > 10 THEN 10 ELSE c

RECURSIVE Fetched(_, _, _, _)
\* len(videos) when the loop over KEYWORDS[k..] ends or raises; the `break`
\* of line 75 leaves the inner loop only
Fetched(responses, k, error, count) ==
  IF k > Len(responses) \/ k = error THEN count
  ELSE LET c == FirstTen(responses[k])
           appended == IF c = 0 THEN 0
                       ELSE IF count >= ITEMS_PER_SOURCE THEN 1
                       ELSE IF c < ITEMS_PER_SOURCE - count THEN c
                       ELSE ITEMS_PER_SOURCE - count
       IN Fetched(responses, k + 1, error, count + appended)

\* whether self._get_sample_data exists: its def (line 88) is indented into
\* the body of collect, after the return statement, so the class has no
\* such attribute and line 82 raises AttributeError
HasSampleData == FALSE

\* lines 80-85, with count videos collected
Filled(count) ==
  IF count < ITEMS_PER_SOURCE
    THEN IF HasSampleData THEN [result |-> "returned", returned |-> ITEMS_PER_SOURCE]
         ELSE [result |-> "raised", returned |-> 0]
    ELSE [result |-> "returned", returned |-> ITEMS_PER_SOURCE]

\* youtube_data = youtube_collector.collect() in collect_and_analyze: when
\* collect raises, the except branch of collect_and_analyze ends the run
\* before the Reddit collection and the analysis
Collect(responses, error) ==
  /\ videos' =
       LET count == Fetched(responses, 1, error, 0)
           end == Filled(count)
       IN [called |-> TRUE, responses |-> responses, error |-> error,
           fetched |-> count, result |-> end.result, returned |-> end.returned,
           went_on |-> end.result = "returned"]
  /\ UNCHANGED <<data, insights, ret, hours, held, heldVal, tieOrder, recs, calls,
                 worksheet, storage, metrics>>

----------------------------------------------------------------------------
(* GoogleSheetsFixed.upload_data_smart (src/google_sheets_fixed.py)        *)
(* The list `data` of n items is <<1, ..., n>>; the worksheet is the       *)
(* sequence of its rows, row 0 being the header row and row i the row of   *)
(* item i. The calls of worksheet.append_row are numbered from 1 in the    *)
(* order they are made, and `fails` is the set of calls that raise.        *)

\* max_items: int = 30
DefaultMaxItems == 30
\* `if total_items <= 15`: one batch
OneBatchLimit == 15
\* `elif total_items <= 30`: two batches
TwoBatchLimit == 30
\* batch_size = 10
BatchSize == 10

\* no upload_data_smart call yet
NoUpload ==
  [called |-> FALSE, len |-> 0, max_items |-> 0, rows |-> <<>>,
   result |-> "none", backup |-> FALSE]

\* data[:max_items] when len(data) > max_items
Limited(n, max_items) == [i \in 1..(IF n > max_items THEN max_items ELSE n) |-> i]

RECURSIVE Chunks(_, _, _)
\* [data[i:i + size] for i in range(from - 1, total_items, size)]
Chunks(items, from, size) ==
  IF from > Len(items) THEN <<>>
  ELSE << SubSeq(items, from, IF from + size - 1 > Len(items) THEN Len(items)
                               ELSE from + size - 1) >>
       \o Chunks(items, from + size, size)

\* the batches of lines 99-108
Batches(items) ==
  LET total_items == Len(items) IN
  IF total_items <= OneBatchLimit THEN << items >>
  ELSE IF total_items <= TwoBatchLimit
    THEN LET mid == total_items \div 2
         IN << SubSeq(items, 1, mid), SubSeq(items, mid + 1, total_items) >>
    ELSE Chunks(items, 1, BatchSize)

RECURSIVE AppendRows(_, _, _, _)
\* `for item in batch: worksheet.append_row(row)` from item j on: the rows
\* appended, the number of the next call, and whether the loop ended
\* without an exception
AppendRows(batch, j, call, fails) ==
  IF j > Len(batch) THEN [rows |-> <<>>, call |-> call, ok |-> TRUE]
  ELSE IF call \in fails THEN [rows |-> <<>>, call |-> call + 1, ok |-> FALSE]
  ELSE LET rest == AppendRows(batch, j + 1, call + 1, fails)
       IN [rows |-> <<batch[j]>> \o rest.rows, call |-> rest.call, ok |-> rest.ok]

\* the except branch of lines 130-145: the whole batch once more
RetryWholeBatch(batch, first, fails) == AppendRows(batch, 1, first.call, fails)

\* one iteration of the loop over the batches
UploadBatch(batch, call, fails) ==
  LET first == AppendRows(batch, 1, call, fails) IN
  IF first.ok THEN first
  ELSE LET retry == RetryWholeBatch(batch, first, fails)
       IN [rows |-> first.rows \o retry.rows, call |-> retry.call, ok |-> retry.ok]

RECURSIVE UploadBatches(_, _, _, _)
\* the rows the loop over batches[i..] appends
UploadBatches(batches, i, call, fails) ==
  IF i > Len(batches) THEN <<>>
  ELSE LET done == UploadBatch(batches[i], call, fails)
       IN done.rows \o UploadBatches(batches, i + 1, done.call, fails)

\* upload_data_smart(data, sheet_name, max_items) with len(data) = n.
\* client: self.client is set; sheet_ok: create_or_clear_sheet returns a
\* worksheet; disk_ok: _save_local_backup manages to write its file.
UploadDataSmart(n, max_items, client, sheet_ok, disk_ok, fails) ==
  /\ worksheet' =
       LET items == Limited(n, max_items)
           call0 == [called |-> TRUE, len |-> n, max_items |-> max_items,
                     rows |-> worksheet.rows, result |-> "False", backup |-> FALSE]
       IN IF ~client \/ n = 0 \/ ~sheet_ok THEN call0
          ELSE IF 1 \in fails
            \* append_row(headers) raises: the outer except branch
            THEN [call0 EXCEPT !.rows = <<>>, !.backup = disk_ok]
            ELSE [call0 EXCEPT !.rows = <<0>> \o UploadBatches(Batches(items), 1, 2, fails),
                               !.result = "True"]
  /\ UNCHANGED <<data, insights, ret, hours, held, heldVal, tieOrder, recs, calls,
                 storage, videos, metrics>>

----------------------------------------------------------------------------
(* GoogleSheetsHandler.store_data (src/google_sheets_handler.py)           *)
(* The list `data` of n items is <<1, ..., n>> and the worksheet the       *)
(* sequence of its rows, as above. What the Sheets API does in one attempt *)
(* is [kind, at]: kind "ok", or an exception whose text names the quota    *)
(* ("quota") or does not ("other"), raised by open_by_key (at = 0) or by   *)
(* the at-th append_row call of the attempt.                               *)

\* max_retries: int = 3
DefaultMaxRetries == 3

\* no store_data call yet
NoStore ==
  [called |-> FALSE, len |-> 0, max_retries |-> 0, attempts |-> 0, rows |-> <<>>,
   result |-> "none", saved |-> FALSE]

\* what one attempt can meet, for a list of n items
AttemptOutcomes(n) ==
  { [kind |-> "ok", at |-> 0] } \cup
  { [kind |-> k, at |-> a] : k \in {"quota", "other"},
                             a \in 0..(IF n = 0 THEN 0 ELSE n + 1) }

\* the worksheet after an attempt: untouched when open_by_key raised or
\* when data is empty, else cleared and refilled up to the raising call
RowsAfter(rows, n, outcome) ==
  IF n = 0 \/ (outcome.kind # "ok" /\ outcome.at = 0) THEN rows
  ELSE IF outcome.kind = "ok" THEN [i \in 1..(n + 1) |-> i - 1]
  ELSE [i \in 1..(outcome.at - 1) |-> i - 1]

\* _save_locally(data, sheet_name) followed by `return False`; the write
\* raises when the disk refuses it
SavedLocally(st, disk_ok) ==
  IF disk_ok THEN [st EXCEPT !.saved = TRUE, !.result = "False"]
  ELSE [st EXCEPT !.result = "raised"]

\* line 113: `return False` once the loop is exhausted
AfterLoop(st) == [st EXCEPT !.result = "False"]

RECURSIVE Attempts(_, _, _, _)
\* the loop `for attempt in range(max_retries)` from its attempt-th round on
Attempts(st, attempt, outcomes, disk_ok) ==
  IF attempt > st.max_retries THEN AfterLoop(st)
  ELSE LET outcome == outcomes[attempt]
           now == [st EXCEPT !.attempts = attempt,
                             !.rows = RowsAfter(st.rows, st.len, outcome)]
       IN IF outcome.kind = "ok"
            THEN IF st.len > 0 THEN [now EXCEPT !.result = "True"]
                 ELSE Attempts(now, attempt + 1, outcomes, disk_ok)
          ELSE IF outcome.kind = "quota"
            THEN IF attempt < st.max_retries
                   THEN Attempts(now, attempt + 1, outcomes, disk_ok)
                   ELSE SavedLocally(now, disk_ok)
          ELSE SavedLocally(now, disk_ok)

\* store_data(data, sheet_name, max_retries) with len(data) = n
StoreData(n, max_retries, client, outcomes, disk_ok) ==
  /\ storage' =
       LET st == [called |-> TRUE, len |-> n, max_retries |-> max_retries,
                  attempts |-> 0, rows |-> storage.rows, result |-> "none",
                  saved |-> FALSE]
       IN IF ~client THEN SavedLocally(st, disk_ok)
          ELSE Attempts(st, 1, outcomes, disk_ok)
  /\ UNCHANGED <<data, insights, ret, hours, held, heldVal, tieOrder, recs, calls,
                 worksheet, videos, metrics>>

----------------------------------------------------------------------------
(* MetricsTracker (src/milestone_3/metrics_tracker.py)                     *)
(* A content_data dict is a record of the keys it carries; datetime.now()  *)
(* is the tracker's logical clock.                                         *)

\* self.metrics as _load_metrics builds it when no metrics file exists
EmptyStore ==
  [content_performance |-> <<>>, platform_stats |-> <<>>, last_updated |-> 0,
   clock |-> 0, file |-> <<>>, result |-> "none"]

\* a platform value that cannot be a dict key (a list)
ListPlatform == "['twitter', 'linkedin']"
Hashable(p) == p # ListPlatform

\* a variant without the default
PlatformOrNone(content_data) ==
  IF "platform" \in DOMAIN content_data THEN content_data.platform ELSE "None"

\* content_data.get("platform", "unknown")
PlatformOf(content_data) ==
  IF "platform" \in DOMAIN content_data THEN content_data.platform ELSE "unknown"

\* {**content_data, "tracked_at": ..., "metrics_id": ...}
TrackingEntry(content_data, now) ==
  [tracked_at |-> now, metrics_id |-> now] @@ content_data

\* d[k] = v on an insertion-ordered dict
DSet(d, k, v) ==
  IF DHas(d, k) THEN [i \in DOMAIN d |-> IF d[i][1] = k THEN <<k, v>> ELSE d[i]]
  ELSE Append(d, <<k, v>>)

\* {"total_content": 0, "avg_length": 0, "last_posted": None}
NewPlatformStats == [total_content |-> 0, avg_length |-> Zero, last_posted |-> 0]

\* [c.get("length", 0) for c in content_performance
\*    if c.get("platform") == platform and c.get("length")]
Lengths(logged, platform) ==
  LET kept == SelectSeq(logged, LAMBDA c :
                /\ "platform" \in DOMAIN c /\ c.platform = platform
                /\ "length" \in DOMAIN c /\ c.length # 0)
  IN [i \in DOMAIN kept |-> IntV(kept[i].length)]

\* the platform's statistics after one more entry was logged at `now`
UpdatedStats(stats, logged, platform, now) ==
  LET plat_stats == IF DHas(stats, platform) THEN DGet(stats, platform) ELSE NewPlatformStats
      lengths == Lengths(logged, platform)
  IN DSet(stats, platform,
          [total_content |-> plat_stats.total_content + 1,
           avg_length |-> IF lengths # <<>> THEN Ratio(Sum(lengths), Len(lengths))
                          ELSE plat_stats.avg_length,
           last_posted |-> now])

\* track_content_performance(content_data); disk_ok tells whether the write
\* of _save_metrics succeeds. At most `bound` entries are logged.
TrackContentPerformance(content_data, disk_ok, bound) ==
  /\ IsMapping(content_data) => Len(metrics.content_performance) < bound
  /\ metrics' =
       IF ~IsMapping(content_data) THEN [metrics EXCEPT !.result = "False"]
       ELSE LET now == metrics.clock + 1
                logged == Append(metrics.content_performance,
                                 TrackingEntry(content_data, now))
                platform == PlatformOf(content_data)
            IN IF ~Hashable(platform)
                 \* `platform not in self.metrics["platform_stats"]` raises TypeError
                 THEN [metrics EXCEPT !.content_performance = logged,
                                      !.clock = now, !.result = "raised"]
                 ELSE LET stats == UpdatedStats(metrics.platform_stats, logged, platform, now)
                      IN [content_performance |-> logged,
                          platform_stats |-> stats,
                          last_updated |-> now,
                          clock |-> now,
                          file |-> IF disk_ok
                                     THEN << [content_performance |-> logged,
                                              platform_stats |-> stats,
                                              last_updated |-> now] >>
                                     ELSE metrics.file,
                          result |-> IF disk_ok THEN "True" ELSE "raised"]
  /\ UNCHANGED <<data, insights, ret, hours, held, heldVal, tieOrder, recs, calls,
                 worksheet, storage, videos>>

----------------------------------------------------------------------------
(* The caller: collect_and_analyze assembles the dict that self.data       *)
(* refers to, and may keep what analyze() returned.                        *)

RECURSIVE TotalFrom(_, _)
TotalFrom(d, k) == IF k > Len(d) THEN 0 ELSE Len(d[k][2]) + TotalFrom(d, k + 1)
TotalItems(d) == TotalFrom(d, 1)

\* the order in which collect_and_analyze stores its collections
CallerOrder == <<"google_news", "youtube", "reddit">>
OrderIndex(p) == CHOOSE n \in DOMAIN CallerOrder : CallerOrder[n] = p

\* all_data[platform] = []
AddPlatform(p) ==
  /\ \A i \in DOMAIN data : OrderIndex(data[i][1]) < OrderIndex(p)
  /\ data' = Append(data, <<p, <<>>>>)
  /\ UNCHANGED <<insights, ret, hours, held, heldVal, tieOrder, recs, calls, worksheet, storage, videos, metrics>>

\* all_data[platform].append(record), at most `bound` records in all
AddRecord(k, r, bound) ==
  /\ k \in DOMAIN data
  /\ TotalItems(data) < bound
  /\ data' = [data EXCEPT ![k] = <<data[k][1], Append(data[k][2], r)>>]
  /\ UNCHANGED <<insights, ret, hours, held, heldVal, tieOrder, recs, calls, worksheet, storage, videos, metrics>>

\* insights = analyzer.analyze(): the caller keeps the returned dict
Hold ==
  /\ ret.kind # "none"
  /\ held.kind = "none"
  /\ held' = ret
  /\ heldVal' = Deref(ret)
  /\ UNCHANGED <<data, insights, ret, hours, tieOrder, recs, calls, worksheet, storage, videos, metrics>>

\* analyzer = TrendAnalyzer(all_data) once more, on the dataset the caller
\* holds: a new accumulator; what the earlier analyzer returned stays as it is
Construct ==
  /\ held.kind # "none"
  /\ insights' = NoInsights
  /\ ret' = NoRef
  /\ hours' = <<>>
  /\ held' = FreshRef(Deref(held))
  /\ UNCHANGED <<data, heldVal, tieOrder, recs, calls, worksheet, storage, videos, metrics>>

\* value_counts() leaves the order of equal counts to the pandas build:
\* first-encountered order, or ascending label order
TieOrders == {"first_seen", "hour_asc"}

\* the state after TrendAnalyzer(d)
InitWith(d) ==
  /\ data = d
  /\ insights = NoInsights
  /\ ret = NoRef
  /\ hours = <<>>
  /\ held = NoRef
  /\ heldVal = NoInsights
  /\ tieOrder \in TieOrders
  /\ recs = NoRecs
  /\ calls = 0
  /\ worksheet = NoUpload
  /\ storage = NoStore
  /\ videos = NoCollect
  /\ metrics = EmptyStore

TS(shape, day, hour) == [shape |-> shape, day |-> day, hour |-> hour]
Word(text, len, cased) == [text |-> text, len |-> len, cased |-> cased]

----------------------------------------------------------------------------
(* SpecTimes: posting times of one platform whose records differ in        *)
(* published_at, unparsable texts included.                                *)

Stamped(ts) == [platform |-> "youtube", published_at |-> ts]

TimesRecords ==
  { [platform |-> "youtube"],
    Stamped(EmptyText),
    Stamped(TS("garbage", 0, 0)),
    Stamped(TS("iso_z", 1, 10)),
    Stamped(TS("fixed", 2, 20)) }

InitTimes == InitWith(<< <<"youtube", <<>>>> >>)

NextTimes ==
  \/ \E r \in TimesRecords : ret.kind = "none" /\ AddRecord(1, r, MaxTimed)
  \/ ret.kind = "none" /\ Analyze

SpecTimes == InitTimes /\ [][NextTimes]_vars

----------------------------------------------------------------------------
(* SpecPeaks: posting times of one platform whose timestamps all parse or  *)
(* are absent, with enough records for more than three distinct hours.     *)

PeaksRecords ==
  { [platform |-> "reddit"],
    [platform |-> "reddit", published_at |-> TS("iso_z", 1, 3)],
    [platform |-> "reddit", published_at |-> TS("iso_offset", 1, 8)],
    [platform |-> "reddit", published_at |-> TS("iso_z", 2, 21)],
    [platform |-> "reddit", published_at |-> TS("iso_offset", 2, 23)] }

InitPeaks == InitWith(<< <<"reddit", <<>>>> >>)

NextPeaks ==
  \/ \E r \in PeaksRecords : ret.kind = "none" /\ AddRecord(1, r, MaxItems)
  \/ ret.kind = "none" /\ Analyze

SpecPeaks == InitPeaks /\ [][NextPeaks]_vars

----------------------------------------------------------------------------
(* Claims about the posting-time block.                                    *)

\* analyze() has returned
Called == ret.kind # "none"
\* the Insights value the last analyze() call returned
Result == Deref(ret)
\* _analyze_posting_times ran to its end and stored its block
TimesStored == "best_posting_times" \in insights.keys

HasStamp(item) == Truthy(PubTime(item))
Unparsable(item) == Truthy(PubTime(item)) /\ ~Parses(PubTime(item))

\* C6 as stated: every record of a non-empty platform contributes exactly
\* one hour, the records without published_at included, so that sample_size
\* is the number of records.
C6_EveryRecordContributes ==
  TimesStored =>
    \A k \in DOMAIN data :
      data[k][2] # <<>> =>
        /\ Len(DGet(hours, data[k][1])) = Len(data[k][2])
        /\ DGet(insights.best_posting_times, data[k][1]).sample_size = Len(data[k][2])

\* C6 (amended): every record whose published_at is present and non-empty
\* contributes exactly one hour, the parsed hour when it parses and a
\* substitute in [9,17] otherwise; a record whose published_at is absent or
\* empty contributes none, and sample_size counts the contributed hours.
C6_StampedRecordsContribute ==
  TimesStored =>
    \A k \in DOMAIN data :
      data[k][2] # <<>> =>
        LET hs == DGet(hours, data[k][1])
            stamped == SelectSeq(data[k][2], HasStamp)
        IN /\ Len(hs) = Len(stamped)
           /\ \A n \in DOMAIN stamped :
                IF Parses(PubTime(stamped[n]))
                  THEN hs[n] = PubTime(stamped[n]).hour
                  ELSE hs[n] \in 9..17
           /\ DGet(insights.best_posting_times, data[k][1]).sample_size = Len(stamped)

\* a platform analysed with a parsed, an unparsable and an absent timestamp
C6_Witness ==
  /\ TimesStored
  /\ \E k \in DOMAIN data :
       /\ \E i \in DOMAIN data[k][2] : Parses(PubTime(data[k][2][i]))
       /\ \E i \in DOMAIN data[k][2] : Unparsable(data[k][2][i])
       /\ \E i \in DOMAIN data[k][2] : "published_at" \notin DOMAIN data[k][2][i]
       /\ DGet(insights.best_posting_times, data[k][1]).sample_size = 2

\* C7: a platform with n >= 1 records, all with a present but unparsable
\* published_at, gets sample_size n and peak hours (peak_hour too) in [9,17].
C7_UnparsableGetBusinessHours ==
  TimesStored =>
    \A k \in DOMAIN data :
      (data[k][2] # <<>> /\ \A i \in DOMAIN data[k][2] : Unparsable(data[k][2][i])) =>
        LET e == DGet(insights.best_posting_times, data[k][1]) IN
        /\ e.sample_size = Len(data[k][2])
        /\ \A n \in DOMAIN e.peak_hours : e.peak_hours[n] \in 9..17
        /\ e.peak_hour \in 9..17

\* three unparsable records analysed, with two distinct substitute hours
C7_Witness ==
  /\ TimesStored
  /\ \E k \in DOMAIN data :
       /\ Len(data[k][2]) = 3
       /\ \A i \in DOMAIN data[k][2] : Unparsable(data[k][2][i])
       /\ DGet(insights.best_posting_times, data[k][1]).sample_size = 3
       /\ Len(DGet(insights.best_posting_times, data[k][1]).peak_hours) = 2

FixedDefault ==
  [peak_hours |-> <<10, 14, 19>>, best_time_range |-> [from |-> 10, to |-> 19],
   sample_size |-> 0, peak_hour |-> 14]

\* C8 as stated: a non-empty platform none of whose records has a
\* published_at that parses gets exactly the fixed default entry.
C8_NoParsableGivesDefault ==
  TimesStored =>
    \A k \in DOMAIN data :
      (data[k][2] # <<>> /\ \A i \in DOMAIN data[k][2] : ~Parses(PubTime(data[k][2][i]))) =>
        DGet(insights.best_posting_times, data[k][1]) = FixedDefault

\* C8 (amended): a non-empty platform none of whose records has a present,
\* non-empty published_at gets exactly the fixed default entry.
C8_NoStampGivesDefault ==
  TimesStored =>
    \A k \in DOMAIN data :
      (data[k][2] # <<>> /\ \A i \in DOMAIN data[k][2] : ~HasStamp(data[k][2][i])) =>
        DGet(insights.best_posting_times, data[k][1]) = FixedDefault

\* a platform analysed whose records lack published_at or hold the empty text
C8_Witness ==
  /\ TimesStored
  /\ \E k \in DOMAIN data :
       /\ \E i \in DOMAIN data[k][2] : "published_at" \notin DOMAIN data[k][2][i]
       /\ \E i \in DOMAIN data[k][2] : PubTime(data[k][2][i]) = EmptyText
                                         /\ "published_at" \in DOMAIN data[k][2][i]
       /\ \A i \in DOMAIN data[k][2] : ~HasStamp(data[k][2][i])
       /\ DGet(insights.best_posting_times, data[k][1]).sample_size = 0

SortedHours(ph) ==
  /\ Len(ph) <= 3
  /\ \A i, j \in DOMAIN ph : i < j => ph[i] <= ph[j]
  /\ \A i \in DOMAIN ph : ph[i] \in 0..23

\* C9: in every returned Insights value, every peak_hours is sorted
\* ascending, has at most 3 entries, and holds hours in [0,23].
C9_PeakHoursSortedBounded ==
  Called =>
    \A n \in DOMAIN Result.best_posting_times :
      SortedHours(Result.best_posting_times[n][2].peak_hours)

\* a returned entry of three peak hours chosen among more than three hours
C9_Witness ==
  /\ Called
  /\ \E n \in DOMAIN Result.best_posting_times :
       /\ Len(Result.best_posting_times[n][2].peak_hours) = 3
       /\ Cardinality(Range(DGet(hours, Result.best_posting_times[n][1]))) > 3

\* the hours that rank among the first three by descending count, equal
\* counts by ascending hour
ByCountThenHour(hs) ==
  {h \in Range(hs) :
     Cardinality({g \in Range(hs) :
        \/ Count(hs, g) > Count(hs, h)
        \/ (Count(hs, g) = Count(hs, h) /\ g < h)}) < 3}

\* C10 as stated: peak_hours is the three most frequent hours with equal
\* counts ranked by smaller hour first, whatever the order of the records.
C10_TiesBySmallerHour ==
  TimesStored =>
    \A k \in DOMAIN data :
      (data[k][2] # <<>> /\ DGet(hours, data[k][1]) # <<>>) =>
        Range(DGet(insights.best_posting_times, data[k][1]).peak_hours)
          = ByCountThenHour(DGet(hours, data[k][1]))

\* C10 (amended): peak_hours holds min(3, number of distinct hours) of the
\* extracted hours, and no hour left out occurs more often than a selected
\* one; which of several equally frequent hours are selected is not
\* decided by the hour value.
C10_MostFrequentSelected ==
  TimesStored =>
    \A k \in DOMAIN data :
      (data[k][2] # <<>> /\ DGet(hours, data[k][1]) # <<>>) =>
        LET hs == DGet(hours, data[k][1])
            sel == Range(DGet(insights.best_posting_times, data[k][1]).peak_hours)
        IN /\ sel \subseteq Range(hs)
           /\ Cardinality(sel) = Len(DGet(insights.best_posting_times, data[k][1]).peak_hours)
           /\ Cardinality(sel) = IF Cardinality(Range(hs)) < 3 THEN Cardinality(Range(hs)) ELSE 3
           /\ \A a \in sel : \A b \in Range(hs) \ sel : Count(hs, a) >= Count(hs, b)

\* four distinct hours, one of them twice, and a tie for the last places
C10_Witness ==
  /\ TimesStored
  /\ \E k \in DOMAIN data :
       LET hs == IF data[k][2] = <<>> THEN <<>> ELSE DGet(hours, data[k][1]) IN
       /\ Len(hs) = 5
       /\ Cardinality(Range(hs)) = 4
       /\ Len(DGet(insights.best_posting_times, data[k][1]).peak_hours) = 3

\* C11: for a platform with at least one extracted hour, best_time_range is
\* "<min(peak_hours)>:00 - <max(peak_hours)>:00" when at least two distinct
\* peak hours were selected and "<h>:00 - <(h+3) mod 24>:00" when only one
\* hour h was selected, and peak_hour is the most frequent extracted hour.
C11_RangeAndPeakHour ==
  TimesStored =>
    \A k \in DOMAIN data :
      (data[k][2] # <<>> /\ DGet(hours, data[k][1]) # <<>>) =>
        LET hs == DGet(hours, data[k][1])
            e == DGet(insights.best_posting_times, data[k][1])
            sel == Range(e.peak_hours)
            lo == CHOOSE a \in sel : \A b \in sel : a <= b
            hi == CHOOSE a \in sel : \A b \in sel : b <= a
        IN /\ e.best_time_range =
                IF Cardinality(sel) >= 2
                  THEN [from |-> lo, to |-> hi]
                  ELSE [from |-> lo, to |-> IF lo + 3 >= 24 THEN lo + 3 - 24 ELSE lo + 3]
           /\ e.peak_hour \in Range(hs)
           /\ \A h \in Range(hs) : Count(hs, h) <= Count(hs, e.peak_hour)

\* a platform whose only hour is 23, so that the window ends after midnight
C11_Witness ==
  /\ TimesStored
  /\ \E k \in DOMAIN data :
       /\ data[k][2] # <<>>
       /\ Range(DGet(hours, data[k][1])) = {23}
       /\ Len(DGet(hours, data[k][1])) >= 2
       /\ DGet(insights.best_posting_times, data[k][1]).best_time_range = [from |-> 23, to |-> 2]
       /\ DGet(insights.best_posting_times, data[k][1]).peak_hour = 23

----------------------------------------------------------------------------
(* Spec: datasets of several platforms that mix timestamp shapes and hold  *)
(* malformed records; analyze() is called once.                            *)

Metrics(v, l, u, c) ==
  [views |-> IntV(v), likes |-> IntV(l), upvotes |-> IntV(u), comments |-> IntV(c)]

MixedRecords ==
  { \* "2024-01-15T14:30:00Z", as the YouTube API writes publishedAt
    [title |-> [words |-> <<Word("marketing", 9, TRUE), Word("tips", 4, FALSE)>>, len |-> 14],
     published_at |-> TS("iso_z", 1, 14), keyword |-> "ai", platform |-> "youtube",
     engagement_metrics |-> Metrics(300, 30, 40, 4)],
    \* datetime.isoformat() without offset, as the sample collectors write it
    [title |-> [words |-> <<Word("trends", 6, FALSE)>>, len |-> 6],
     published_at |-> TS("iso_naive", 2, 9), keyword |-> "seo", platform |-> "reddit",
     engagement_metrics |-> Metrics(100, 10, 0, 0)],
    \* no published_at, no engagement_metrics
    [title |-> EmptyTitle, keyword |-> "ai"],
    \* a text that holds a 'T' and is no ISO date
    [published_at |-> TS("garbage_T", 0, 0), platform |-> "google_news"],
    \* counts delivered as text
    [published_at |-> TS("iso_z", 2, 16), keyword |-> "seo",
     engagement_metrics |-> [views |-> TextV, upvotes |-> TextV]],
    NotAMapping }

Init == InitWith(<<>>)

Next ==
  \/ \E p \in Platforms : ret.kind = "none" /\ AddPlatform(p)
  \/ \E k \in 1..Cardinality(Platforms) : \E r \in MixedRecords :
       ret.kind = "none" /\ AddRecord(k, r, MaxMixed)
  \/ ret.kind = "none" /\ Analyze

Spec == Init /\ [][Next]_vars

----------------------------------------------------------------------------
(* Claims about analyze() as a whole.                                      *)

\* a mapping whose engagement values, if any, are numbers
WellFormed(item) ==
  /\ IsMapping(item)
  /\ "engagement_metrics" \in DOMAIN item =>
       \A key \in DOMAIN item.engagement_metrics : item.engagement_metrics[key].kind = "int"

AllWellFormed(d) == \A k \in DOMAIN d : \A i \in DOMAIN d[k][2] : WellFormed(d[k][2][i])

\* C1: for every dataset of well-formed records, whatever mix of
\* published_at shapes they carry, the returned Insights hold an entry in
\* best_posting_times and in platform_insights for every non-empty platform.
C1_EveryShapeYieldsEntries ==
  (Called /\ AllWellFormed(data)) =>
    \A k \in DOMAIN data :
      data[k][2] # <<>> =>
        /\ DHas(Result.best_posting_times, data[k][1])
        /\ DHas(Result.platform_insights, data[k][1])

\* the five keys, each mapped to an empty mapping
AllEmpty ==
  [keys |-> {"best_posting_times", "viral_content_patterns", "engagement_insights",
             "keyword_performance", "platform_insights"},
   best_posting_times |-> <<>>,
   viral_content_patterns |->
     [empty |-> TRUE, high_engagement_titles |-> <<>>, common_keywords_in_viral |-> <<>>],
   engagement_insights |-> <<>>,
   keyword_performance |-> <<>>,
   platform_insights |-> <<>>]

TextMetric(item, key) ==
  /\ IsMapping(item)
  /\ "engagement_metrics" \in DOMAIN item
  /\ key \in DOMAIN item.engagement_metrics
  /\ item.engagement_metrics[key].kind = "text"

\* what makes a stage raise: a record that is no mapping, a text among the
\* counts a platform sums, datetimes with and without offset to compare
FaultCause(d) ==
  \E k \in DOMAIN d :
    \/ \E i \in DOMAIN d[k][2] : ~IsMapping(d[k][2][i])
    \/ /\ d[k][1] = "youtube"
       /\ \E i \in DOMAIN d[k][2] : TextMetric(d[k][2][i], "views") \/ TextMetric(d[k][2][i], "likes")
    \/ /\ d[k][1] = "reddit"
       /\ \E i \in DOMAIN d[k][2] : TextMetric(d[k][2][i], "upvotes") \/ TextMetric(d[k][2][i], "comments")
    \/ \E i, j \in DOMAIN d[k][2] :
         /\ IsMapping(d[k][2][i]) /\ IsMapping(d[k][2][j])
         /\ PubTime(d[k][2][i]).shape \in {"iso_z", "iso_offset"}
         /\ PubTime(d[k][2][j]).shape \in {"iso_naive", "fixed"}

\* C2: whatever the dataset holds, what analyze() returns is a mapping with
\* the five keys, and when a stage faults it is the all-empty Insights
\* value: five keys, each mapped to an empty mapping.
C2_NeverRaises ==
  /\ Called => Result.keys = BlockNames
  /\ (Called /\ FaultCause(data)) => Result = AllEmpty

\* a call that faulted in a late stage, after earlier stages stored blocks
C2_Witness ==
  /\ Called
  /\ FaultCause(data)
  /\ "keyword_performance" \in insights.keys
  /\ insights.keyword_performance # <<>>
  /\ Result = AllEmpty

\* C3: for every platform with at least one (well-formed) record, the
\* returned platform_insights holds its total_items, the number of records.
C3_TotalItemsIsRecordCount ==
  (Called /\ AllWellFormed(data)) =>
    \A k \in DOMAIN data :
      data[k][2] # <<>> =>
        /\ DHas(Result.platform_insights, data[k][1])
        /\ DGet(Result.platform_insights, data[k][1]).total_items = Len(data[k][2])

Skipped(d, p) == ~DHas(d, p) \/ DGet(d, p) = <<>>

\* C4: a platform that is absent from the dataset or mapped to an empty
\* sequence has no key in any per-platform block of the returned Insights.
C4_EmptyPlatformsSkipped ==
  Called =>
    \A p \in Platforms :
      Skipped(data, p) =>
        /\ ~DHas(Result.best_posting_times, p)
        /\ ~DHas(Result.engagement_insights, p)
        /\ ~DHas(Result.keyword_performance, p)
        /\ ~DHas(Result.platform_insights, p)

\* a completed call on a dataset with an empty, an absent and a non-empty platform
C4_Witness ==
  /\ Called
  /\ ret.kind = "self"
  /\ \E p \in Platforms : DHas(data, p) /\ DGet(data, p) = <<>>
  /\ \E p \in Platforms : ~DHas(data, p)
  /\ \E p \in Platforms :
       /\ DHas(Result.best_posting_times, p)
       /\ DHas(Result.engagement_insights, p)
       /\ DHas(Result.keyword_performance, p)
       /\ DHas(Result.platform_insights, p)

----------------------------------------------------------------------------
(* SpecAlias: a caller keeps the dict a call returned, goes on appending   *)
(* to the dataset and calls analyze() again on the same analyzer.          *)

AliasRecords ==
  { [published_at |-> TS("iso_z", 1, 14), keyword |-> "ai",
     engagement_metrics |-> [views |-> IntV(300), likes |-> IntV(30)]],
    [published_at |-> TS("iso_z", 2, 9), keyword |-> "seo",
     engagement_metrics |-> [views |-> IntV(100), likes |-> IntV(10)]],
    [published_at |-> TS("iso_z", 2, 16), keyword |-> "seo",
     engagement_metrics |-> [views |-> TextV]] }

InitAlias == InitWith(<< <<"youtube", <<>>>> >>)

NextAlias ==
  \/ \E r \in AliasRecords : AddRecord(1, r, MaxMixed)
  \/ calls < MaxCalls /\ Analyze
  \/ Hold

SpecAlias == InitAlias /\ [][NextAlias]_vars

\* C5: the Insights value a call returned is never changed afterwards,
\* whatever later calls on the same analyzer do.
C5_ReturnedValueUnchanged ==
  held.kind # "none" => Deref(held) = heldVal

----------------------------------------------------------------------------
(* SpecEngage: engagement and keyword statistics of a dataset with the     *)
(* three collected platforms and one platform the analyzer has no branch   *)
(* for; counts are numbers, upvotes may be negative (the sample collector  *)
(* draws upvotes_base + randint(-20, 50) with a base of 15).               *)

Titled(n) == [words |-> <<Word("marketing", 9, FALSE), Word("tips", 4, FALSE)>>, len |-> n]

\* <<index of the platform in the dataset, record>>
EngageRecords ==
  { <<1, [title |-> Titled(14), keyword |-> "ai", platform |-> "google_news"]>>,
    <<2, [title |-> Titled(14), keyword |-> "ai", platform |-> "youtube",
          engagement_metrics |-> [views |-> IntV(300), likes |-> IntV(30)]]>>,
    <<2, [keyword |-> "ai", platform |-> "youtube",
          engagement_metrics |-> [views |-> IntV(100), likes |-> IntV(10)]]>>,
    <<2, [platform |-> "youtube"]>>,
    <<3, [keyword |-> "seo", platform |-> "reddit",
          engagement_metrics |-> [upvotes |-> IntV(-5), comments |-> IntV(3)]]>>,
    <<3, [keyword |-> "seo", platform |-> "reddit",
          engagement_metrics |-> [upvotes |-> IntV(0), comments |-> IntV(4)]]>>,
    <<3, [platform |-> "reddit",
          engagement_metrics |-> [upvotes |-> IntV(10), comments |-> IntV(4)]]>>,
    <<4, [title |-> Titled(14), keyword |-> "ai", platform |-> "twitter",
          engagement_metrics |-> [views |-> IntV(50), upvotes |-> IntV(5)]]>> }

InitEngage ==
  InitWith(<< <<"google_news", <<>>>>, <<"youtube", <<>>>>,
              <<"reddit", <<>>>>, <<"twitter", <<>>>> >>)

NextEngage ==
  \/ \E kr \in EngageRecords : ret.kind = "none" /\ AddRecord(kr[1], kr[2], MaxEngaged)
  \/ ret.kind = "none" /\ Analyze

SpecEngage == InitEngage /\ [][NextEngage]_vars

----------------------------------------------------------------------------
(* Claims about the engagement and keyword blocks.                         *)

\* _analyze_engagement ran to its end and stored its block
EngagementStored == "engagement_insights" \in insights.keys
\* _analyze_keywords ran to its end and stored its block
KeywordsStored == "keyword_performance" \in insights.keys

\* the number a record holds under engagement_metrics[key], 0 when missing
Num(item, key) ==
  IF "engagement_metrics" \in DOMAIN item /\ key \in DOMAIN item.engagement_metrics
    THEN item.engagement_metrics[key].n
    ELSE 0

RECURSIVE TotalOf(_, _, _)
\* the sum of Num(item, key) over the records of idx
TotalOf(items, key, idx) ==
  IF idx = {} THEN 0
  ELSE LET i == CHOOSE j \in idx : TRUE
       IN Num(items[i], key) + TotalOf(items, key, idx \ {i})

\* q is a / n truncated toward zero (n > 0)
IsTruncatedMean(q, a, n) ==
  /\ a >= 0 => (q * n <= a /\ a < (q + 1) * n)
  /\ a < 0 => (q * n >= a /\ a > (q - 1) * n)

\* the fraction f equals a / b (b # 0)
IsRatio(f, a, b) == f.den > 0 /\ f.num * b = a * f.den

\* C12: a non-empty platform whose name is neither "youtube" nor "reddit"
\* always gets an engagement_insights entry of the "other" shape
\* {total_items, avg_title_length}, whatever its name and its records' metrics.
C12_OtherPlatformsGetEntry ==
  EngagementStored =>
    \A k \in DOMAIN data :
      (data[k][2] # <<>> /\ data[k][1] \notin {"youtube", "reddit"}) =>
        /\ DHas(insights.engagement_insights, data[k][1])
        /\ DOMAIN DGet(insights.engagement_insights, data[k][1])
             = {"shape", "total_items", "avg_title_length"}
        /\ DGet(insights.engagement_insights, data[k][1]).total_items = Len(data[k][2])

\* the values of Num(item, key) over the records
NumsOf(items, key) == {Num(items[i], key) : i \in DOMAIN items}

\* C13: for a non-empty "youtube" platform, avg_views and avg_likes are the
\* integer-truncated means of views and likes over all records (a missing
\* metric counting as 0), max_views and min_views the largest and smallest
\* views, total_items the record count and view_to_like_ratio
\* sum(likes) / sum(views); in particular min_views <= avg_views <= max_views.
C13_YoutubeStats ==
  EngagementStored =>
    \A k \in DOMAIN data :
      (data[k][2] # <<>> /\ data[k][1] = "youtube") =>
        LET items == data[k][2]
            n == Len(items)
            sv == TotalOf(items, "views", DOMAIN items)
            sl == TotalOf(items, "likes", DOMAIN items)
            e == DGet(insights.engagement_insights, "youtube")
        IN /\ DHas(insights.engagement_insights, "youtube")
           /\ IsTruncatedMean(e.avg_views, sv, n)
           /\ IsTruncatedMean(e.avg_likes, sl, n)
           /\ e.max_views \in NumsOf(items, "views")
           /\ e.min_views \in NumsOf(items, "views")
           /\ \A v \in NumsOf(items, "views") : e.min_views <= v /\ v <= e.max_views
           /\ e.total_items = n
           /\ sv # 0 => IsRatio(e.view_to_like_ratio, sl, sv)
           /\ e.min_views <= e.avg_views /\ e.avg_views <= e.max_views

\* the videos with 300 and 100 views, 30 and 10 likes, and one without metrics
C13_Witness ==
  /\ EngagementStored
  /\ DHas(insights.engagement_insights, "youtube")
  /\ LET e == DGet(insights.engagement_insights, "youtube") IN
     /\ e.total_items = 3
     /\ e.avg_views = 133
     /\ e.avg_likes = 13
     /\ e.view_to_like_ratio = [num |-> 1, den |-> 10]
     /\ e.max_views = 300
     /\ e.min_views = 0

\* C14 as stated: engagement_rate is 0 whenever sum(upvotes) is 0 and
\* sum(comments) / sum(upvotes) otherwise, view_to_like_ratio is 0 whenever
\* sum(views) is 0; the entry is emitted and the other blocks are computed.
C14_ZeroOnlyAtZeroSum ==
  Called =>
    \A k \in DOMAIN data :
      LET items == data[k][2]
          su == TotalOf(items, "upvotes", DOMAIN items)
          sc == TotalOf(items, "comments", DOMAIN items)
          sv == TotalOf(items, "views", DOMAIN items)
      IN /\ (items # <<>> /\ data[k][1] = "reddit") =>
              /\ DHas(Result.engagement_insights, "reddit")
              /\ IF su = 0
                   THEN DGet(Result.engagement_insights, "reddit").engagement_rate = [num |-> 0, den |-> 1]
                   ELSE IsRatio(DGet(Result.engagement_insights, "reddit").engagement_rate, sc, su)
         /\ (items # <<>> /\ data[k][1] = "youtube" /\ sv = 0) =>
              /\ DHas(Result.engagement_insights, "youtube")
              /\ DGet(Result.engagement_insights, "youtube").view_to_like_ratio = [num |-> 0, den |-> 1]

\* C14 (amended): engagement aggregation never faults on a zero denominator:
\* engagement_rate is 0 whenever sum(upvotes) is 0 or negative (and
\* sum(comments) / sum(upvotes) when it is positive), view_to_like_ratio is 0
\* whenever sum(views) is 0; the platform's entry is emitted and the call
\* completes with all five blocks.
C14_ZeroAtNonPositiveSum ==
  Called =>
    /\ ret.kind = "self"
    /\ Result.keys = BlockNames
    /\ \A k \in DOMAIN data :
         LET items == data[k][2]
             su == TotalOf(items, "upvotes", DOMAIN items)
             sc == TotalOf(items, "comments", DOMAIN items)
             sv == TotalOf(items, "views", DOMAIN items)
         IN /\ (items # <<>> /\ data[k][1] = "reddit") =>
                 /\ DHas(Result.engagement_insights, "reddit")
                 /\ IF su <= 0
                      THEN DGet(Result.engagement_insights, "reddit").engagement_rate = [num |-> 0, den |-> 1]
                      ELSE IsRatio(DGet(Result.engagement_insights, "reddit").engagement_rate, sc, su)
            /\ (items # <<>> /\ data[k][1] = "youtube" /\ sv = 0) =>
                 /\ DHas(Result.engagement_insights, "youtube")
                 /\ DGet(Result.engagement_insights, "youtube").view_to_like_ratio = [num |-> 0, den |-> 1]

\* posts without upvotes and videos without views analysed together
C14_Witness ==
  /\ Called
  /\ \E k \in DOMAIN data :
       /\ data[k][1] = "reddit" /\ data[k][2] # <<>>
       /\ TotalOf(data[k][2], "upvotes", DOMAIN data[k][2]) = 0
       /\ TotalOf(data[k][2], "comments", DOMAIN data[k][2]) > 0
  /\ \E k \in DOMAIN data :
       /\ data[k][1] = "youtube" /\ data[k][2] # <<>>
       /\ TotalOf(data[k][2], "views", DOMAIN data[k][2]) = 0
  /\ DGet(Result.engagement_insights, "reddit").engagement_rate = [num |-> 0, den |-> 1]
  /\ DGet(Result.engagement_insights, "youtube").view_to_like_ratio = [num |-> 0, den |-> 1]
  /\ Result.platform_insights # <<>>

\* the keyword a record is grouped under
GroupOf(item) == IF "keyword" \in DOMAIN item THEN item.keyword ELSE "unknown"

\* the metric whose sum is the engagement of a platform's keyword groups
MetricOf(platform) ==
  IF platform = "youtube" THEN "views" ELSE IF platform = "reddit" THEN "upvotes" ELSE "none"

\* the groups of keyword_performance[P] are the keywords of P's records, and
\* each holds the number of its records and the sum of their engagement
GroupsCounted(k) ==
  LET items == data[k][2]
      perf == DGet(insights.keyword_performance, data[k][1])
  IN /\ DHas(insights.keyword_performance, data[k][1])
     /\ {perf[n][1] : n \in DOMAIN perf} = {GroupOf(items[i]) : i \in DOMAIN items}
     /\ \A n \in DOMAIN perf :
          LET group == {i \in DOMAIN items : GroupOf(items[i]) = perf[n][1]} IN
          /\ perf[n][2].count = Cardinality(group)
          /\ perf[n][2].total_engagement = TotalOf(items, MetricOf(data[k][1]), group)

\* C15 as stated: records are grouped by keyword (absent keyword under
\* "unknown"); count is the size of the group, total_engagement the sum of
\* views (youtube), upvotes (reddit) or 0 (other platforms), and
\* avg_engagement is total_engagement // count, negative totals included.
C15_AvgIsFloorDivision ==
  KeywordsStored =>
    \A k \in DOMAIN data :
      data[k][2] # <<>> =>
        /\ GroupsCounted(k)
        /\ LET perf == DGet(insights.keyword_performance, data[k][1]) IN
           \A n \in DOMAIN perf :
             perf[n][2].avg_engagement = perf[n][2].total_engagement \div perf[n][2].count

\* C15 (amended): the same grouping, counts and totals; avg_engagement is
\* total_engagement / count truncated toward zero, which is
\* total_engagement // count only when the total is not negative.
C15_AvgIsTruncatedDivision ==
  KeywordsStored =>
    \A k \in DOMAIN data :
      data[k][2] # <<>> =>
        /\ GroupsCounted(k)
        /\ LET perf == DGet(insights.keyword_performance, data[k][1]) IN
           \A n \in DOMAIN perf :
             IsTruncatedMean(perf[n][2].avg_engagement,
                             perf[n][2].total_engagement, perf[n][2].count)

\* a reddit keyword with two posts and -5 upvotes in all, and a record
\* without keyword grouped under "unknown"
C15_Witness ==
  /\ KeywordsStored
  /\ DHas(insights.keyword_performance, "reddit")
  /\ DHas(DGet(insights.keyword_performance, "reddit"), "seo")
  /\ DGet(DGet(insights.keyword_performance, "reddit"), "seo")
       = [count |-> 2, total_engagement |-> -5, avg_engagement |-> -2]
  /\ \E p \in {"youtube", "reddit"} :
       /\ DHas(insights.keyword_performance, p)
       /\ DHas(DGet(insights.keyword_performance, p), "unknown")

----------------------------------------------------------------------------
(* SpecTrend: the engagement trend of one "youtube" platform with five or  *)
(* more records; a record carries the platform field the collectors write  *)
(* or, like the records of the module's own test data, none.               *)

Video(day, views) ==
  [platform |-> "youtube", published_at |-> TS("iso_z", day, 10),
   engagement_metrics |-> [views |-> IntV(views), likes |-> IntV(0)]]

TrendRecords ==
  { Video(1, 100), Video(2, 300), Video(3, 100),
    \* no platform field
    [published_at |-> TS("iso_z", 1, 10),
     engagement_metrics |-> [views |-> IntV(100), likes |-> IntV(0)]],
    \* no published_at
    [platform |-> "youtube",
     engagement_metrics |-> [views |-> IntV(100), likes |-> IntV(0)]] }

InitTrend == InitWith(<< <<"youtube", <<>>>> >>)

NextTrend ==
  \/ \E r \in TrendRecords : ret.kind = "none" /\ AddRecord(1, r, MaxItems)
  \/ ret.kind = "none" /\ Analyze

SpecTrend == InitTrend /\ [][NextTrend]_vars

----------------------------------------------------------------------------
(* Claims about engagement_trend.                                          *)

\* _analyze_platforms ran to its end and stored its block
PlatformsStored == "platform_insights" \in insights.keys

\* the dated records that come before record i in ascending date order
\* (records of the same date in input order)
EarlierThan(items, i) ==
  {j \in DOMAIN items :
     /\ Parses(PubTime(items[j]))
     /\ \/ PubTime(items[j]).day < PubTime(items[i]).day
        \/ /\ PubTime(items[j]).day = PubTime(items[i]).day
           /\ PubTime(items[j]).hour < PubTime(items[i]).hour
        \/ /\ PubTime(items[j]).day = PubTime(items[i]).day
           /\ PubTime(items[j]).hour = PubTime(items[i]).hour
           /\ j < i}

\* the trend policy, for engagement read from engagement_metrics[key]
TrendOf(items, key) ==
  LET dated == {i \in DOMAIN items : Parses(PubTime(items[i]))}
      n == Cardinality(dated)
      first == {i \in dated : Cardinality(EarlierThan(items, i)) < n \div 2}
      second == dated \ first
      n1 == Cardinality(first)
      n2 == Cardinality(second)
      s1 == TotalOf(items, key, first)
      s2 == TotalOf(items, key, second)
  IN IF Len(items) < 5 THEN "Insufficient data"
     ELSE IF n < 5 THEN "Stable"
     \* s2 / n2 > 1.2 * s1 / n1
     ELSE IF 10 * s2 * n1 > 12 * s1 * n2 THEN "Increasing"
     \* s2 / n2 < 0.8 * s1 / n1
     ELSE IF 10 * s2 * n1 < 8 * s1 * n2 THEN "Decreasing"
     ELSE "Stable"

\* the metric the trend reads, decided by the platform field of the first record
FirstRecordMetric(items) ==
  IF "platform" \in DOMAIN items[1] /\ items[1].platform = "youtube" THEN "views"
  ELSE IF "platform" \in DOMAIN items[1] /\ items[1].platform = "reddit" THEN "upvotes"
  ELSE "none"

\* C16: the metric engagement_trend is computed from is the metric of the
\* dataset key P (views for "youtube", upvotes for "reddit", 0 otherwise),
\* whether or not the records carry a platform field.
C16_TrendMetricByDatasetKey ==
  PlatformsStored =>
    \A k \in DOMAIN data :
      data[k][2] # <<>> =>
        DGet(insights.platform_insights, data[k][1]).engagement_trend
          = TrendOf(data[k][2], MetricOf(data[k][1]))

\* C17: engagement_trend is "Insufficient data" below 5 records, "Stable"
\* with 5 records or more of which fewer than 5 have a parseable date, and
\* otherwise, over the n dated records in ascending date order split into
\* the floor(n/2) earliest and the rest, "Increasing" if mean(second) >
\* 1.2 * mean(first), "Decreasing" if mean(second) < 0.8 * mean(first),
\* else "Stable".
C17_TrendPolicy ==
  PlatformsStored =>
    \A k \in DOMAIN data :
      data[k][2] # <<>> =>
        DGet(insights.platform_insights, data[k][1]).engagement_trend
          = TrendOf(data[k][2], FirstRecordMetric(data[k][2]))

\* five dated videos appended out of date order whose views fall over time
C17_Witness ==
  /\ PlatformsStored
  /\ \E k \in DOMAIN data :
       /\ Len(data[k][2]) = 5
       /\ \A i \in DOMAIN data[k][2] : Parses(PubTime(data[k][2][i]))
       /\ PubTime(data[k][2][1]).day = 3
       /\ PubTime(data[k][2][5]).day = 2
       /\ FirstRecordMetric(data[k][2]) = "views"
       /\ DGet(insights.platform_insights, data[k][1]).engagement_trend = "Decreasing"

----------------------------------------------------------------------------
(* SpecViral: viral patterns of a "youtube" platform with up to seven      *)
(* videos: one or two without views, then videos with 100 views whose      *)
(* titles are longer than 100 characters, short, or missing.               *)

\* nine words of 11 characters: 107 characters
LongWords ==
  <<"advertising", "influencers", "performance", "storytelling", "newsletters",
    "automations", "conversions", "positioning", "competitors">>
LongTitle ==
  [words |-> [n \in 1..9 |-> Word(LongWords[n], 11, FALSE)], len |-> 107]

\* "Advertising growth tips the": its first word is the first word of
\* LongTitle, capitalised
ShortTitle ==
  [words |-> <<Word(LongWords[1], 11, TRUE), Word("growth", 6, FALSE),
               Word("tips", 4, FALSE), Word("the", 3, FALSE)>>,
   len |-> 27]

Viewed(views, title) ==
  [title |-> title, platform |-> "youtube",
   engagement_metrics |-> [views |-> IntV(views), likes |-> IntV(0)]]

ViralRecords ==
  { Viewed(100, LongTitle), Viewed(100, ShortTitle),
    [platform |-> "youtube", engagement_metrics |-> [views |-> IntV(100), likes |-> IntV(0)]] }

Unseen == Viewed(0, [words |-> <<Word("news", 4, FALSE)>>, len |-> 4])

InitViral ==
  \E first \in {<<Unseen>>, <<Unseen, Unseen>>} : InitWith(<< <<"youtube", first>> >>)

NextViral ==
  \/ \E r \in ViralRecords : ret.kind = "none" /\ AddRecord(1, r, MaxViral)
  \/ ret.kind = "none" /\ Analyze

SpecViral == InitViral /\ [][NextViral]_vars

----------------------------------------------------------------------------
(* Claims about the viral-pattern block.                                   *)

\* _analyze_viral_patterns ran to its end and stored its block
ViralStored == "viral_content_patterns" \in insights.keys

\* the youtube records of the dataset
Videos == IF DHas(data, "youtube") THEN DGet(data, "youtube") ELSE <<>>

\* the records whose views are strictly above the mean of all views
ViralIdx ==
  {i \in DOMAIN Videos :
     Num(Videos[i], "views") * Len(Videos) > TotalOf(Videos, "views", DOMAIN Videos)}

\* the first five of them in input order
FirstFiveViral == {i \in ViralIdx : Cardinality({j \in ViralIdx : j < i}) < 5}

TitleOf(item) == IF "title" \in DOMAIN item THEN item.title ELSE [words |-> <<>>, len |-> 0]

\* t is the first 100 characters of title
IsFirstHundred(t, title) ==
  /\ t.len = IF title.len <= 100 THEN title.len ELSE 100
  /\ Len(t.words) <= Len(title.words)
  /\ \A j \in DOMAIN t.words :
       /\ t.words[j].text = title.words[j].text
       /\ t.words[j].len <= title.words[j].len
       /\ j < Len(t.words) => t.words[j] = title.words[j]
  /\ title.len <= 100 => t = title

\* C18: a youtube record is viral exactly when its views are strictly above
\* the mean of the views of all youtube records; high_engagement_titles
\* holds the first 100 characters of the titles of the first 5 viral records
\* in input order, never more than 5 entries, none when all views are equal.
C18_ViralTitles ==
  ViralStored =>
    LET titles == insights.viral_content_patterns.high_engagement_titles
        titled == {i \in FirstFiveViral : TitleOf(Videos[i]).len > 0}
        nth(n) == CHOOSE i \in titled : Cardinality({j \in titled : j < i}) = n - 1
    IN /\ Len(titles) = Cardinality(titled)
       /\ Len(titles) <= 5
       /\ \A n \in DOMAIN titles : IsFirstHundred(titles[n], TitleOf(Videos[nth(n)]))
       /\ (\A i, j \in DOMAIN Videos : Num(Videos[i], "views") = Num(Videos[j], "views"))
            => titles = <<>>

\* six viral videos after one without views; a title cut at 100 characters
\* and a video without title among the first five
C18_Witness ==
  /\ ViralStored
  /\ Cardinality(ViralIdx) = 6
  /\ Len(Videos) = 7
  /\ \E i \in FirstFiveViral : TitleOf(Videos[i]).len = 0
  /\ \E n \in DOMAIN insights.viral_content_patterns.high_engagement_titles :
       /\ insights.viral_content_patterns.high_engagement_titles[n].len = 100
       /\ Len(insights.viral_content_patterns.high_engagement_titles[n].words) = 9
  /\ Len(insights.viral_content_patterns.high_engagement_titles) = 4

\* the lowercase words of four characters or more of the titles of all
\* viral records, in input order
RECURSIVE ViralWordsFrom(_)
ViralWordsFrom(i) ==
  IF i > Len(Videos) THEN <<>>
  ELSE (IF i \in ViralIdx
          THEN LET ws == TitleOf(Videos[i]).words
                   long == {j \in DOMAIN ws : ws[j].len >= 4}
                   nth(n) == CHOOSE j \in long : Cardinality({l \in long : l < j}) = n - 1
               IN [n \in 1..Cardinality(long) |-> [ws[nth(n)] EXCEPT !.cased = FALSE]]
          ELSE <<>>)
       \o ViralWordsFrom(i + 1)

\* C19: common_keywords_in_viral lists the (at most) 10 most frequent
\* lowercase words of length >= 4 of the titles of all viral records, by
\* descending frequency, equally frequent words in first-encountered order.
C19_CommonKeywords ==
  ViralStored =>
    LET ws == ViralWordsFrom(1)
        kws == insights.viral_content_patterns.common_keywords_in_viral
        freq == [w \in Range(ws) |-> Cardinality({i \in DOMAIN ws : ws[i] = w})]
        met == [w \in Range(ws) |-> CHOOSE i \in DOMAIN ws : ws[i] = w /\ \A j \in 1..(i - 1) : ws[j] # w]
        ComesBefore(a, b) == freq[a] > freq[b] \/ (freq[a] = freq[b] /\ met[a] < met[b])
    IN /\ Range(kws) \subseteq Range(ws)
       /\ Len(kws) = IF Cardinality(Range(ws)) < 10 THEN Cardinality(Range(ws)) ELSE 10
       /\ \A m, n \in DOMAIN kws : m < n => ComesBefore(kws[m], kws[n])
       /\ \A w \in Range(ws) \ Range(kws) : \A n \in DOMAIN kws : ComesBefore(kws[n], w)

\* six viral videos with eleven distinct words; the sixth video's title makes
\* its first word the most frequent one
C19_Witness ==
  /\ ViralStored
  /\ Cardinality(ViralIdx) = 6
  /\ Cardinality(Range(ViralWordsFrom(1))) = 11
  /\ Len(insights.viral_content_patterns.common_keywords_in_viral) = 10
  /\ \A i \in FirstFiveViral : TitleOf(Videos[i]) = ShortTitle
  /\ insights.viral_content_patterns.common_keywords_in_viral[2].len = 6
  /\ insights.viral_content_patterns.common_keywords_in_viral[3].len = 4

----------------------------------------------------------------------------
(* SpecRecs: recommendations from a dataset of the three collected         *)
(* platforms; get_recommendations() may be called before or after          *)
(* analyze().                                                              *)

\* <<index of the platform in the dataset, record>>
RecsRecords ==
  { <<1, [title |-> Titled(14), keyword |-> "ai", platform |-> "google_news"]>>,
    <<2, [title |-> Titled(14), keyword |-> "ai", platform |-> "youtube",
          engagement_metrics |-> [views |-> IntV(100), likes |-> IntV(10)]]>>,
    <<2, [title |-> LongTitle, keyword |-> "seo", platform |-> "youtube",
          engagement_metrics |-> [views |-> IntV(300), likes |-> IntV(30)]]>>,
    <<3, [keyword |-> "seo", platform |-> "reddit",
          engagement_metrics |-> [upvotes |-> IntV(400), comments |-> IntV(4)]]>>,
    <<3, [keyword |-> "ai", platform |-> "reddit",
          engagement_metrics |-> [upvotes |-> IntV(0), comments |-> IntV(4)]]>> }

InitRecs ==
  InitWith(<< <<"google_news", <<>>>>, <<"youtube", <<>>>>, <<"reddit", <<>>>> >>)

NextRecs ==
  \/ \E kr \in RecsRecords :
       ret.kind = "none" /\ ~recs.called /\ AddRecord(kr[1], kr[2], MaxRecs)
  \/ ret.kind = "none" /\ ~recs.called /\ Analyze
  \/ ~recs.called /\ GetRecommendations

SpecRecs == InitRecs /\ [][NextRecs]_vars

----------------------------------------------------------------------------
(* Claims about get_recommendations().                                     *)

\* the recommendations of one rule, in the order they were written
OfRule(list, rule) == SelectSeq(list, LAMBDA r : r.rule = rule)

\* the platforms a sequence of recommendations names, in order
PlatformsNamed(list) == [n \in DOMAIN list |-> list[n].platform]

\* what rules 1-4 write on the analyzer's insights, rule by rule
Rule1 ==
  [n \in DOMAIN insights.best_posting_times |->
     [rule |-> "posting_time", platform |-> insights.best_posting_times[n][1],
      range |-> insights.best_posting_times[n][2].best_time_range]]
Rule2 ==
  LET kws == insights.viral_content_patterns.common_keywords_in_viral IN
  IF kws = <<>> THEN <<>>
  ELSE << [rule |-> "viral_keywords",
           keywords |-> IF Len(kws) <= 3 THEN kws ELSE <<kws[1], kws[2], kws[3]>>] >>
Rule3 == PlatformRecs(insights.engagement_insights)
Rule4 == KeywordRecs(insights.keyword_performance, 1)
Rules == Rule1 \o Rule2 \o Rule3 \o Rule4

\* C20: get_recommendations() returns the first min(5, n) entries of the
\* sequence built in this order: one posting-time recommendation per
\* platform with a best_time_range, then at most one viral-keyword
\* recommendation naming the first 3 viral keywords, then at most one
\* best-platform recommendation, then at most one keyword recommendation
\* per platform; never more than 5 entries, never reordered.
C20_FirstFiveInRuleOrder ==
  recs.called =>
    /\ Len(recs.list) <= 5
    /\ Rules # <<>> =>
         /\ Len(recs.list) = IF Len(Rules) < 5 THEN Len(Rules) ELSE 5
         /\ \A n \in DOMAIN recs.list : recs.list[n] = Rules[n]
         /\ Len(Rule2) <= 1 /\ Len(Rule3) <= 1
         /\ Len(Rule4) <= Len(insights.keyword_performance)

\* seven recommendations written, of which the first five are returned:
\* three posting times, the viral keywords and the best platform
C20_Witness ==
  /\ recs.called
  /\ Len(Rules) = 7
  /\ Len(recs.list) = 5
  /\ PlatformsNamed(OfRule(recs.list, "posting_time")) = <<"google_news", "youtube", "reddit">>
  /\ recs.list[4].rule = "viral_keywords"
  /\ Len(recs.list[4].keywords) = 3
  /\ recs.list[5] = [rule |-> "best_platform", platform |-> "reddit", avg |-> 400]

\* the four general recommendations, as the source lists them
FourGeneral ==
  << [rule |-> "general", n |-> 1], [rule |-> "general", n |-> 2],
     [rule |-> "general", n |-> 3], [rule |-> "general", n |-> 4] >>

\* stats.get("avg_views", stats.get("avg_upvotes", 0)) of a stored entry
EngagementOf(stats) ==
  IF "avg_views" \in DOMAIN stats THEN stats.avg_views
  ELSE IF "avg_upvotes" \in DOMAIN stats THEN stats.avg_upvotes ELSE 0

\* rules 1 to 4 have nothing to write on the analyzer's insights
NothingToRecommend ==
  /\ insights.best_posting_times = <<>>
  /\ insights.viral_content_patterns.common_keywords_in_viral = <<>>
  /\ \A i \in DOMAIN insights.engagement_insights :
       EngagementOf(insights.engagement_insights[i][2]) <= 0
  /\ \A k \in DOMAIN insights.keyword_performance :
       \A j \in DOMAIN insights.keyword_performance[k][2] :
         insights.keyword_performance[k][2][j][2].avg_engagement <= 0

\* C21: get_recommendations() returns the four general recommendations, in
\* their fixed order, exactly when rules 1-4 wrote nothing (in particular
\* when every insight block is empty); otherwise no general recommendation
\* appears; the result is never empty and never mixes general entries with
\* data-driven ones.
C21_GeneralExactlyWhenNothingWritten ==
  recs.called =>
    /\ NothingToRecommend <=> recs.list = FourGeneral
    /\ insights = NoInsights => recs.list = FourGeneral
    /\ ~NothingToRecommend => OfRule(recs.list, "general") = <<>>
    /\ recs.list # <<>>
    /\ OfRule(recs.list, "general") \in {<<>>, recs.list}

\* analyze() completed on a dataset without any record, every block it
\* stored is empty, and the four general recommendations came back
C21_Witness ==
  /\ recs.called
  /\ ret.kind = "self"
  /\ insights.keys = BlockNames
  /\ NothingToRecommend
  /\ recs.list = FourGeneral

\* C22: rule 3 writes exactly one best-platform recommendation, naming the
\* platform whose avg_views (avg_upvotes when avg_views is absent) is the
\* highest of engagement_insights, when that highest value is above 0, and
\* none when no platform has a value above 0.
C22_BestPlatform ==
  recs.called =>
    LET stats == insights.engagement_insights
        best == OfRule(recs.written, "best_platform")
    IN IF \E i \in DOMAIN stats : EngagementOf(stats[i][2]) > 0
         THEN /\ Len(best) = 1
              /\ \E i \in DOMAIN stats :
                   /\ stats[i][1] = best[1].platform
                   /\ EngagementOf(stats[i][2]) = best[1].avg
                   /\ \A j \in DOMAIN stats :
                        EngagementOf(stats[j][2]) <= EngagementOf(stats[i][2])
         ELSE best = <<>>

\* youtube averages 100 views, reddit 400 upvotes: reddit is named
C22_Witness ==
  /\ recs.called
  /\ Len(insights.engagement_insights) = 3
  /\ \E i \in DOMAIN insights.engagement_insights :
       /\ insights.engagement_insights[i][1] = "youtube"
       /\ EngagementOf(insights.engagement_insights[i][2]) = 100
  /\ OfRule(recs.written, "best_platform")
       = << [rule |-> "best_platform", platform |-> "reddit", avg |-> 400] >>

\* C23: rule 4 writes, for every platform with non-empty keyword
\* performance, one recommendation naming the keyword of the largest
\* avg_engagement within that platform when that largest value is above 0,
\* and none for a platform whose largest value is 0 or less.
C23_BestKeywordPerPlatform ==
  recs.called =>
    LET perf == insights.keyword_performance
        written == OfRule(recs.written, "best_keyword")
    IN \A k \in DOMAIN perf :
         LET mine == SelectSeq(written, LAMBDA r : r.platform = perf[k][1])
             groups == perf[k][2]
         IN IF \E j \in DOMAIN groups : groups[j][2].avg_engagement > 0
              THEN /\ Len(mine) = 1
                   /\ \E j \in DOMAIN groups :
                        /\ groups[j][1] = mine[1].keyword
                        /\ groups[j][2].avg_engagement = mine[1].avg
                        /\ \A i \in DOMAIN groups :
                             groups[i][2].avg_engagement <= groups[j][2].avg_engagement
              ELSE mine = <<>>

\* youtube's second keyword group is its best one, and google news, whose
\* only group averages 0, gets no recommendation
C23_Witness ==
  /\ recs.called
  /\ \E k \in DOMAIN insights.keyword_performance :
       /\ insights.keyword_performance[k][1] = "youtube"
       /\ Len(insights.keyword_performance[k][2]) = 2
       /\ insights.keyword_performance[k][2][1][2].avg_engagement
            < insights.keyword_performance[k][2][2][2].avg_engagement
       /\ \E n \in DOMAIN recs.written :
            /\ recs.written[n].rule = "best_keyword"
            /\ recs.written[n].platform = "youtube"
            /\ recs.written[n].keyword = insights.keyword_performance[k][2][2][1]
  /\ \E k \in DOMAIN insights.keyword_performance :
       /\ insights.keyword_performance[k][1] = "google_news"
       /\ insights.keyword_performance[k][2] # <<>>
  /\ \A n \in DOMAIN recs.written :
       recs.written[n].rule = "best_keyword" => recs.written[n].platform # "google_news"

----------------------------------------------------------------------------
(* SpecTrack: a MetricsTracker over an empty store receives any sequence   *)
(* of track_content_performance calls.                                     *)

TrackArguments ==
  { NotAMapping,
    [topic |-> "ai"],
    [topic |-> "ai", length |-> 100],
    [platform |-> "twitter", length |-> 100],
    [platform |-> "twitter", length |-> 300],
    [platform |-> "unknown", length |-> 0],
    [platform |-> ListPlatform] }

InitTrack == InitWith(<<>>)

NextTrack ==
  \E content_data \in TrackArguments : \E disk_ok \in BOOLEAN :
    TrackContentPerformance(content_data, disk_ok, MaxTracked)

SpecTrack == InitTrack /\ [][NextTrack]_vars

\* the logged entries whose platform, "unknown" when absent, is p
LoggedFor(p) ==
  Cardinality({i \in DOMAIN metrics.content_performance :
     LET c == metrics.content_performance[i] IN
     (IF "platform" \in DOMAIN c THEN c.platform ELSE "unknown") = p})

\* the platforms that can key platform_stats
KeyPlatforms == {"twitter", "unknown", "linkedin"}

\* everything of the store but the outcome of the last call
StoreOf(m) == [m EXCEPT !.result = "none"]

\* C30: from an empty store, content_performance only grows, by one entry
\* per call with a mapping argument and by none otherwise; for every
\* platform p, platform_stats[p].total_content is the number of logged
\* entries whose platform ("unknown" when absent) is p; a call with a
\* non-mapping argument returns False and changes nothing.
C30_LogGrowsAndCountsMatch ==
  /\ [](\A p \in KeyPlatforms :
          IF DHas(metrics.platform_stats, p)
            THEN DGet(metrics.platform_stats, p).total_content = LoggedFor(p)
            ELSE LoggedFor(p) = 0)
  /\ [][ /\ \/ metrics'.content_performance = metrics.content_performance
            \/ /\ Len(metrics'.content_performance) = Len(metrics.content_performance) + 1
               /\ SubSeq(metrics'.content_performance, 1, Len(metrics.content_performance))
                    = metrics.content_performance
               /\ metrics'.result \in {"True", "raised"}
         /\ metrics'.result = "False" => StoreOf(metrics') = StoreOf(metrics)
         /\ metrics'.result \in {"True", "raised"} =>
              Len(metrics'.content_performance) = Len(metrics.content_performance) + 1
       ]_vars

\* three entries logged, two of them without a platform field, after a
\* call with a non-mapping argument returned False
C30_Witness ==
  /\ Len(metrics.content_performance) = 3
  /\ metrics.result = "False"
  /\ DHas(metrics.platform_stats, "unknown")
  /\ DGet(metrics.platform_stats, "unknown").total_content = 2
  /\ DHas(metrics.platform_stats, "twitter")
  /\ DGet(metrics.platform_stats, "twitter").avg_length = Ratio(300, 1)

----------------------------------------------------------------------------
(* SpecSession: one dataset, analysed more than once, by the same          *)
(* analyzer or by a second one built from the same dataset; the caller     *)
(* keeps the first result and finally asks for the recommendations. A      *)
(* record with an unparsable timestamp, if any, is the dataset's first.    *)

SessionRecords ==
  { [published_at |-> TS("iso_z", 1, 14), keyword |-> "ai",
     engagement_metrics |-> [views |-> IntV(300), likes |-> IntV(30)]],
    [published_at |-> TS("fixed", 2, 9), keyword |-> "seo",
     engagement_metrics |-> [views |-> IntV(100), likes |-> IntV(10)]],
    [published_at |-> TS("garbage", 0, 0), keyword |-> "seo",
     engagement_metrics |-> [views |-> IntV(100), likes |-> IntV(10)]],
    [published_at |-> TS("iso_z", 2, 16), keyword |-> "seo",
     engagement_metrics |-> [views |-> TextV]],
    NotAMapping }

InitSession == InitWith(<< <<"youtube", <<>>>> >>)

NextSession ==
  \/ \E r \in SessionRecords :
       /\ calls = 0
       /\ NeedsRandom(r) => data[1][2] = <<>>
       /\ AddRecord(1, r, MaxMixed)
  \/ calls < MaxCalls /\ ~recs.called /\ Analyze
  \/ calls = 1 /\ Hold
  \/ calls = 1 /\ ret.kind # "none" /\ Construct
  \/ ret.kind # "none" /\ ~recs.called /\ GetRecommendations

SpecSession == InitSession /\ [][NextSession]_vars

\* every published_at of the dataset can be parsed
AllParseable ==
  \A k \in DOMAIN data : \A i \in DOMAIN data[k][2] :
    LET item == data[k][2][i] IN
    (IsMapping(item) /\ "published_at" \in DOMAIN item) =>
      item.published_at.shape \in {"iso_z", "iso_offset", "iso_naive", "fixed"}

\* C24: analyze() called twice on the same dataset, every published_at of
\* which can be parsed, returns identical Insights, on the same analyzer
\* and on two analyzers built from the same dataset.
C24_SecondCallReturnsTheSame ==
  (held.kind # "none" /\ calls >= 2 /\ ret.kind # "none" /\ AllParseable) =>
    Result = heldVal

\* the second call, made by a second analyzer, completed on two records
\* and returned what the first analyzer had returned
C24_Witness ==
  /\ held.kind = "fresh"
  /\ heldVal.keys = BlockNames
  /\ heldVal.best_posting_times # <<>>
  /\ calls = 2
  /\ ret.kind = "self"
  /\ Len(data[1][2]) = 2
  /\ AllParseable
  /\ Result = heldVal

\* C25 as stated: after an analyze() call that met an internal fault and
\* returned the all-empty Insights, get_recommendations() on the same
\* analyzer returns exactly the four general recommendations; the
\* recommendations are always derived from the Insights the last analyze()
\* call returned.
C25_RecommendationsFollowReturnedInsights ==
  (recs.called /\ ret.kind # "none") =>
    /\ ret.kind = "fresh" => recs.list = FourGeneral
    /\ recs.list = Recommendations(Result)

----------------------------------------------------------------------------
(* Claims across the blocks of one analysis (checked under SpecEngage).    *)

\* the platform keys of a per-platform block
KeysOf(block) == {block[n][1] : n \in DOMAIN block}

RECURSIVE CountsFrom(_, _)
\* the sum of the counts of the keyword groups perf[n..]
CountsFrom(perf, n) ==
  IF n > Len(perf) THEN 0 ELSE perf[n][2].count + CountsFrom(perf, n + 1)

\* C29: after a successful analyze(), for every platform P with at least
\* one record the counts of the keyword groups of keyword_performance[P]
\* sum to platform_insights[P].total_items, and best_posting_times,
\* keyword_performance and platform_insights have the same platform keys.
C29_GroupCountsSumToTotalItems ==
  ret.kind = "self" =>
    /\ \A k \in DOMAIN data :
         data[k][2] # <<>> =>
           /\ DHas(insights.keyword_performance, data[k][1])
           /\ DHas(insights.platform_insights, data[k][1])
           /\ CountsFrom(DGet(insights.keyword_performance, data[k][1]), 1)
                = DGet(insights.platform_insights, data[k][1]).total_items
    /\ KeysOf(insights.best_posting_times) = KeysOf(insights.keyword_performance)
    /\ KeysOf(insights.keyword_performance) = KeysOf(insights.platform_insights)

\* youtube holds three records in two keyword groups ("ai" twice, and one
\* record without keyword), reddit one record, the other platforms none
C29_Witness ==
  /\ ret.kind = "self"
  /\ KeysOf(insights.platform_insights) = {"youtube", "reddit"}
  /\ Len(DGet(insights.keyword_performance, "youtube")) = 2
  /\ DGet(insights.keyword_performance, "youtube")[1][2].count = 2
  /\ DGet(insights.platform_insights, "youtube").total_items = 3
  /\ DGet(insights.platform_insights, "reddit").total_items = 1

----------------------------------------------------------------------------
(* SpecUpload: one upload_data_smart call on a new sheet, for lists short  *)
(* and long enough for one, two and four batches, with up to two           *)
(* append_row calls raising.                                               *)

UploadLengths == (0..MaxUpload) \cup {16, 31}

InitUpload == InitWith(<<>>)

NextUpload ==
  /\ ~worksheet.called
  /\ \E n \in UploadLengths : \E max_items \in {2, DefaultMaxItems, 40} :
       \E client, sheet_ok, disk_ok \in BOOLEAN :
         \E f1, f2 \in 0..(2 * n + 1) :
           /\ f1 <= f2
           /\ (~client \/ ~sheet_ok) => (f1 = 0 /\ f2 = 0 /\ disk_ok)
           /\ UploadDataSmart(n, max_items, client, sheet_ok, disk_ok, {f1, f2} \ {0})

SpecUpload == InitUpload /\ [][NextUpload]_vars

\* the smaller of two numbers
Least(a, b) == IF a < b THEN a ELSE b

\* C26 as stated: when upload_data_smart returns True the worksheet holds
\* the header row followed by exactly the first min(len(data), max_items)
\* items, each once and in input order, whatever append_row calls failed.
C26_SheetHoldsEachItemOnce ==
  worksheet.result = "True" =>
    worksheet.rows = <<0>> \o [i \in 1..Least(worksheet.len, worksheet.max_items) |-> i]

----------------------------------------------------------------------------
(* SpecStore: one store_data call, with and without a client, for every    *)
(* pattern of quota errors and other errors over its attempts.             *)

InitStore == InitWith(<<>>)

NextStore ==
  /\ ~storage.called
  /\ \E n \in 0..MaxStored : \E max_retries \in (0..MaxRetries) \cup {DefaultMaxRetries} :
       \E client, disk_ok \in BOOLEAN :
         \E outcomes \in [1..max_retries -> AttemptOutcomes(n)] :
           StoreData(n, max_retries, client, outcomes, disk_ok)

SpecStore == InitStore /\ [][NextStore]_vars

\* C27 as stated: whenever store_data returns False the data has been saved
\* to a local backup file (without a client, after a non-quota error, after
\* quota errors on all max_retries attempts, and also when data is empty or
\* max_retries is 0), and store_data never makes more than max_retries
\* upload attempts.
C27_FalseMeansSavedLocally ==
  /\ storage.result = "False" => storage.saved
  /\ storage.attempts <= storage.max_retries

----------------------------------------------------------------------------
(* SpecCollect: one collect() call of collect_and_analyze, for every       *)
(* answer of the YouTube API.                                              *)

InitCollect == InitWith(<<>>)

NextCollect ==
  /\ ~videos.called
  /\ \E n \in 0..MaxKeywords :
       \E responses \in [1..n -> 0..MaxPerKeyword] : \E error \in 0..n :
         Collect(responses, error)

SpecCollect == InitCollect /\ [][NextCollect]_vars

\* C28 as stated: when the YouTube API call raises or yields fewer than
\* ITEMS_PER_SOURCE videos, collect() fills the remainder with sample data
\* and returns exactly ITEMS_PER_SOURCE records without raising, so that
\* collect_and_analyze goes on to the Reddit collection and the analysis.
C28_ShortfallFilledWithSamples ==
  (videos.called /\ (videos.error > 0 \/ videos.fetched < ITEMS_PER_SOURCE)) =>
    /\ videos.result = "returned"
    /\ videos.returned = ITEMS_PER_SOURCE
    /\ videos.went_on

====
